---- MODULE Spec2Model ----
(***************************************************************************)
(* Model of the transcript fetch / retry / cache core of youtube_bangla:   *)
(*   src/src/transcript_api.py  TranscriptFetcher.get_transcript,          *)
(*                              TranscriptFormatter, TranscriptProcessor   *)
(*   src/src/config.py          Config.get_proxy_dict                      *)
(*   src/src/mongodb_cache.py   MongoDBCache                               *)
(*   src/src/youtube_api.py     YouTubeAPIClient.get_channel_info,         *)
(*                              YouTubeAPIClient.get_channel_videos        *)
(*   src/src/proxy_manager.py   WebshareProxyManager                       *)
(* Spec       : one caller running get_transcript against a                *)
(*              nondeterministic upstream and egress rotator.              *)
(* SpecCache  : one caller using the MongoDB cache under a moving clock.   *)
(* SpecStore  : the three collections of the cache, the purge and the      *)
(*              clock, from the construction of the cache on.              *)
(* SpecClient : one caller of YouTubeAPIClient and its cache, whatever the *)
(*              construction of the cache came to.                         *)
(* SpecRace   : two callers of YouTubeAPIClient sharing one cache.         *)
(* SpecProxy  : one caller of Config.get_proxy_dict and of the             *)
(*              WebshareProxyManager, against a nondeterministic provider. *)
(* SpecLive   : get_transcript against the live upstream, with the         *)
(*              scheduling of its caller and its upstream calls counted.   *)
(* SpecEgress : get_transcript with the egress taken from the rotator.     *)
(* SpecFormat : the formatter functions on bounded transcripts.            *)
(* SpecProcessor : get_and_format next to a cache that a collaborator      *)
(*              fills.                                                     *)
(* SpecThreads : two unsynchronised callers of the rotator, one step for   *)
(*              each load and store of the shared cursor.                  *)
(* SpecPurge  : the purge and the lookups on a store filled over a month.  *)
(***************************************************************************)
EXTENDS Integers, Sequences, FiniteSets, TLC

VARIABLES
    \* ---- Config (class attributes, process wide)
    proxy_mode,                 \* effective Config.PROXY_MODE
    residential_proxy_counter,  \* Config._residential_proxy_counter
    \* ---- TranscriptFetcher instance and the frame of get_transcript
    use_proxy,                  \* self.use_proxy
    pc,                         \* position of the caller in get_transcript
    languages,                  \* the caller's priority list
    attempt,                    \* loop variable of the retry loop
    lang_idx,                   \* position of the language loop (1-based)
    last_error,                 \* local last_error ("None" is Python's None)
    api,                        \* proxy of the api instance of this attempt
    result,                     \* the dictionary returned by get_transcript
    \* ---- history of the current get_transcript call
    started,                    \* attempts started
    sleeps,                     \* time.sleep(1) calls
    calls,                      \* upstream calls of the current attempt
    observed,                   \* message of the last transient error raised
    egress_failed,              \* some _create_api_instance raised
    mocked,                     \* the upstream is a scripted mock
    mock_fail,                  \* the mock raises in its first mock_fail attempts
    fetches,                    \* upstream calls of the whole call, where counted
    rotations,                  \* Config.get_proxy_dict calls of the whole call
    \* ---- MongoDBCache and its store
    enabled,                    \* self.enabled
    now,                        \* datetime.utcnow(), in days
    channels,                   \* db.channels, in insertion order
    videos,                     \* db.videos, in insertion order
    op,                         \* the last cache operation and its arguments
    ret,                        \* what that operation returned
    transcripts,                \* db.transcripts, in insertion order
    constructed,                \* how MongoDBCache.__init__ ended
    \* ---- YouTubeAPIClient and the frames of its callers
    cache,                      \* self.cache is a MongoDBCache (FALSE: None)
    callers,                    \* the frame of each caller
    \* ---- WebshareProxyManager, its cache file and its provider
    proxies,                    \* self.proxies
    current_index,              \* self.current_index
    last_fetch,                 \* self.last_fetch, in minutes (Never: None)
    cache_file,                 \* the content of .proxy_cache.json
    clock,                      \* datetime.now(), in minutes
    mop,                        \* the last rotator operation and what it did
    mret,                       \* what that operation returned
    \* ---- history of the rotator
    served,                     \* get_next_proxy calls that returned an endpoint,
                                \* counted while they all found one pool size
    fixed,                      \* that pool size (0: none yet, -1: it varied)
    denied,                     \* the provider has answered 401
    fallback,                   \* the last list request failed in transport
    numbers,                    \* the last proxy numbers of the rotating mode
    \* ---- TranscriptFormatter and TranscriptProcessor
    entries,                    \* the transcript handed to format_timestamped
    formatted,                  \* the string it returned
    proc,                       \* the frame of get_and_format
    processed,                  \* the dictionary get_and_format returned
    formats                     \* the formatter functions that call invoked

fetcherVars == <<proxy_mode, residential_proxy_counter, use_proxy, pc, languages,
                 attempt, lang_idx, last_error, api, result, started,
                 sleeps, calls, observed, egress_failed, mocked, mock_fail,
                 fetches, rotations>>
cacheVars == <<enabled, now, channels, videos, op, ret>>
storeVars == <<transcripts, constructed>>
clientVars == <<cache, callers>>
managerVars == <<proxies, current_index, last_fetch, cache_file, clock, mop, mret,
                 served, fixed, denied, fallback, numbers>>
formatVars == <<entries, formatted, proc, processed, formats>>
vars == <<fetcherVars, cacheVars, storeVars, clientVars, managerVars, formatVars>>

-----------------------------------------------------------------------------
(* Bounds of the model *)

MaxLangs == 2
MaxSnippets == 1
MaxTime == 8
MaxWriteTime == 1
MaxDocs == 2
MaxBatch == 2
LeapDays == 100
MaxPool == 3
MaxServed == 7
ClockStep == 30
MaxMinutes == 60
MaxEntries == 2
MaxRounds == 2
MaxTurns == 2
TicksPerSecond == 2

(* Program constants *)

MAX_RETRY_ATTEMPTS == 5
residential_proxy_count == 10
ChannelStalenessDays == 7
VideoStalenessDays == 1
DefaultPurgeDays == 30
cache_duration_minutes == 60

max_retries == MAX_RETRY_ATTEMPTS

-----------------------------------------------------------------------------
(* Data *)

Langs == {"bn", "en", "hi"}

RECURSIVE SeqsUpTo(_, _)
SeqsUpTo(S, n) ==
    IF n = 0 THEN {<<>>}
    ELSE LET shorter == SeqsUpTo(S, n - 1)
         IN  shorter \cup {Append(s, x) : s \in shorter, x \in S}

LanguageLists == SeqsUpTo(Langs, MaxLangs)

\* languages=None, the default of the parameter
None == <<"None">>

\* FetchedTranscriptSnippet objects: <<text, start, duration>>
\* a text is the sequence of its characters
Snippets == {<<<<"h", "i">>, 0, 2>>, <<<<"a", "\n", "b">>, 75, 3>>}
Fetched == SeqsUpTo(Snippets, MaxSnippets)

\* str(n) for the numbers the f-strings format
IntStr(n) ==
    CASE n = 0 -> "0" [] n = 1 -> "1" [] n = 2 -> "2" [] n = 3 -> "3"
      [] n = 4 -> "4" [] n = 5 -> "5" [] n = 6 -> "6" [] n = 7 -> "7"
      [] n = 8 -> "8" [] n = 9 -> "9" [] n = 10 -> "10" [] OTHER -> "many"

Last(s) == s[Len(s)]

\* Exceptions: the class and str(e)
NoTranscriptFound == [type |-> "NoTranscriptFound", msg |-> "no transcript for the languages"]
TranscriptsDisabled == [type |-> "TranscriptsDisabled", msg |-> "subtitles are disabled"]
TransientErrors == {[type |-> "RequestBlocked", msg |-> "ip blocked"],
                    [type |-> "ConnectionError", msg |-> "timed out"]}
EgressErrors == {[type |-> "KeyError", msg |-> "proxy_address"]}
NoException == [type |-> "none", msg |-> ""]

\* Classes derived from Exception
ExceptionClasses == {"NoTranscriptFound", "TranscriptsDisabled", "RequestBlocked",
                     "ConnectionError", "KeyError", "IndexError"}

\* What one upstream api.fetch call can do: return snippets or raise
Returns(s) == [exc |-> NoException, data |-> s]
Raises(e) == [exc |-> e, data |-> <<>>]
UpstreamOutcomes ==
    {Returns(s) : s \in Fetched}
      \cup {Raises(e) : e \in {NoTranscriptFound, TranscriptsDisabled} \cup TransientErrors}

\* A scripted upstream: it raises a transient error on every call of the first
\* mock_fail attempts and returns entries afterwards
MockOutcomes ==
    IF attempt <= mock_fail
    THEN {Raises(e) : e \in TransientErrors}
    ELSE {Returns(s) : s \in Fetched \ {<<>>}}

Outcomes == IF mocked THEN MockOutcomes ELSE UpstreamOutcomes

Mocks == {[on |-> FALSE, fail |-> 0]} \cup {[on |-> TRUE, fail |-> k] : k \in 0..MAX_RETRY_ATTEMPTS}

-----------------------------------------------------------------------------
(* Config.get_proxy_dict *)

ProxyModes == {"rotating", "api", "manual", "none"}

NoProxy == [kind |-> "none", number |-> 0]
NoApi == [kind |-> "unset", number |-> 0]

\* The outcomes of one call of Config.get_proxy_dict: the counter afterwards,
\* the dictionary returned (NoProxy is None) and the exception raised, if any.
\* "none" stands for USE_PROXY false or no proxy configured.
get_proxy_dict_FromZero ==
    LET c == (residential_proxy_counter + 1) % residential_proxy_count
    IN  {[counter |-> c, proxy |-> [kind |-> "rotating", number |-> c],
          exc |-> NoException]}

get_proxy_dict ==
    CASE proxy_mode = "rotating" ->
           LET c == (residential_proxy_counter % residential_proxy_count) + 1
           IN  {[counter |-> c, proxy |-> [kind |-> "rotating", number |-> c],
                 exc |-> NoException]}
      [] proxy_mode = "api" ->
           \* manager.get_next_proxy(): an endpoint, None, or an exception
           {[counter |-> residential_proxy_counter, proxy |-> p, exc |-> NoException] :
                p \in {[kind |-> "api", number |-> 0], NoProxy}}
             \cup {[counter |-> residential_proxy_counter, proxy |-> NoProxy, exc |-> e] :
                     e \in EgressErrors}
      [] proxy_mode = "manual" ->
           {[counter |-> residential_proxy_counter,
             proxy |-> [kind |-> "manual", number |-> 0], exc |-> NoException]}
      [] OTHER ->
           {[counter |-> residential_proxy_counter, proxy |-> NoProxy,
             exc |-> NoException]}

-----------------------------------------------------------------------------
(* TranscriptFetcher.get_transcript *)

NoResult == [returned |-> FALSE]

ToEntry(snippet) ==
    [text |-> snippet[1], start |-> snippet[2], duration |-> snippet[3]]

ToTranscript(data) == [i \in 1..Len(data) |-> ToEntry(data[i])]

check_if_generated == TRUE

SuccessDict_CountsLanguages(data, lang, generated) ==
    [success |-> TRUE, transcript |-> ToTranscript(data), language_code |-> lang,
     is_generated |-> generated, attempts |-> attempt + lang_idx - 1]

SuccessDict(data, lang, generated) ==
    [success |-> TRUE, transcript |-> ToTranscript(data), language_code |-> lang,
     is_generated |-> generated, attempts |-> attempt]

NoTranscriptDict ==
    [success |-> FALSE, error |-> <<"No transcript found">>, attempts |-> attempt]

DisabledDict ==
    [success |-> FALSE, error |-> <<"Transcripts disabled">>, attempts |-> attempt]

ExhaustedDict_NoLastError(err) ==
    [success |-> FALSE,
     error |-> <<"Failed after ", IntStr(max_retries), " attempts.">>,
     attempts |-> max_retries]

\* The dictionary returned after the retry loop; err is last_error
ExhaustedDict(err) ==
    [success |-> FALSE,
     error |-> <<"Failed after ", IntStr(max_retries), " attempts. Last error: ", err>>,
     attempts |-> max_retries]

InnerCatches_Any(exc) == exc.type # "TranscriptsDisabled"

\* except NoTranscriptFound: continue  (the language loop)
InnerCatches(exc) == exc.type = "NoTranscriptFound"

OuterClause_DisabledRetried(exc) ==
    CASE exc.type = "NoTranscriptFound" -> "no_transcript"
      [] exc.type \in ExceptionClasses -> "exception"
      [] OTHER -> "propagate"

OuterClause_NotFoundRetried(exc) ==
    CASE exc.type = "TranscriptsDisabled" -> "disabled"
      [] exc.type \in ExceptionClasses -> "exception"
      [] OTHER -> "propagate"

OuterClause_NoCatchAll(exc) ==
    CASE exc.type = "NoTranscriptFound" -> "no_transcript"
      [] exc.type = "TranscriptsDisabled" -> "disabled"
      [] OTHER -> "propagate"

\* The except clause of the retry loop's try that takes the exception
OuterClause(exc) ==
    CASE exc.type = "NoTranscriptFound" -> "no_transcript"
      [] exc.type = "TranscriptsDisabled" -> "disabled"
      [] exc.type \in ExceptionClasses -> "exception"
      [] OTHER -> "propagate"

ShouldRetry_OffByOne == attempt < max_retries - 1 /\ use_proxy
ShouldRetry_IgnoresProxy == attempt < max_retries
ShouldRetry_OneMore == attempt <= max_retries /\ use_proxy

\* if attempt < self.max_retries and self.use_proxy
ShouldRetry == attempt < max_retries /\ use_proxy

\* the try body goes on to the language at position idx
Proceed(idx) ==
    /\ pc' = "fetch"
    /\ lang_idx' = idx
    /\ UNCHANGED <<attempt, started, last_error, result, sleeps>>

\* return of a dictionary
ReturnDict(r) ==
    /\ pc' = "returned"
    /\ result' = r
    /\ UNCHANGED <<attempt, started, lang_idx, last_error, sleeps>>

\* An exception reaches the except clauses of the retry loop
Outer(exc) ==
    LET clause == OuterClause(exc) IN
    CASE clause = "no_transcript" -> ReturnDict(NoTranscriptDict)
      [] clause = "disabled" -> ReturnDict(DisabledDict)
      [] clause = "exception" ->
           /\ last_error' = exc.msg
           /\ IF ShouldRetry
              THEN \* sleep, continue: the next iteration of the retry loop
                   /\ sleeps' = sleeps + 1
                   /\ attempt' = attempt + 1
                   /\ started' = started + 1
                   /\ pc' = "create"
                   /\ UNCHANGED <<lang_idx, result>>
              ELSE \* break, then the return after the loop
                   /\ pc' = "returned"
                   /\ result' = ExhaustedDict(exc.msg)
                   /\ UNCHANGED <<attempt, started, lang_idx, sleeps>>
      [] OTHER ->
           /\ pc' = "raised"
           /\ UNCHANGED <<attempt, started, lang_idx, last_error, result, sleeps>>

IsTransient(exc) == exc.type \notin {"NoTranscriptFound", "TranscriptsDisabled"}

Raise(exc) ==
    /\ observed' = IF IsTransient(exc) THEN exc.msg ELSE observed
    /\ Outer(exc)

\* get_transcript(video_id, languages) is called on a fetcher with use_proxy = up
Call(up, langs, mock) ==
    /\ pc = "idle"
    /\ use_proxy' = up
    /\ languages' = IF langs = None THEN <<"bn", "en", "hi">> ELSE langs
    /\ mocked' = mock.on
    /\ mock_fail' = mock.fail
    /\ pc' = "create"
    /\ attempt' = 1
    /\ started' = 1
    /\ lang_idx' = 1
    /\ last_error' = "None"
    /\ api' = NoApi
    /\ result' = NoResult
    /\ sleeps' = 0
    /\ calls' = <<>>
    /\ observed' = "None"
    /\ egress_failed' = FALSE
    /\ fetches' = 0
    /\ rotations' = 0
    /\ UNCHANGED <<proxy_mode, residential_proxy_counter>>

UsesRotator_FirstAttemptOnly == use_proxy /\ attempt = 1

\* Config.get_proxy_dict() if self.use_proxy else None
UsesRotator == use_proxy

\* api = self._create_api_instance()
CreateApi ==
    /\ pc = "create"
    /\ calls' = <<>>
    /\ UNCHANGED <<proxy_mode, use_proxy, languages, mocked, mock_fail>>
    /\ rotations' = IF UsesRotator THEN rotations + 1 ELSE rotations
    /\ IF ~UsesRotator
       THEN /\ api' = NoProxy
            /\ observed' = observed
            /\ Proceed(1)
            /\ UNCHANGED <<residential_proxy_counter, egress_failed>>
       ELSE \E o \in get_proxy_dict :
              /\ residential_proxy_counter' = o.counter
              /\ IF o.exc = NoException
                 THEN /\ api' = o.proxy
                      /\ observed' = observed
                      /\ Proceed(1)
                      /\ UNCHANGED egress_failed
                 ELSE /\ egress_failed' = TRUE
                      /\ Raise(o.exc)
                      /\ UNCHANGED api

AnyLanguage == "<any>"

\* for lang in languages: the loop has run through the list
LoopExhausted_Early == lang_idx >= Len(languages)
LoopExhausted == lang_idx > Len(languages)

CallRecord(lang, o) == [lang |-> lang, out |-> o.exc.type, n |-> Len(o.data)]

\* api.fetch(video_id, languages=[lang]) for the language at lang_idx
FetchLang ==
    /\ pc = "fetch"
    /\ ~LoopExhausted
    /\ lang_idx <= Len(languages)
    /\ UNCHANGED <<proxy_mode, residential_proxy_counter, use_proxy, languages, api,
                   egress_failed, mocked, mock_fail, rotations>>
    /\ \E o \in Outcomes :
         LET lang == languages[lang_idx] IN
         /\ calls' = Append(calls, CallRecord(lang, o))
         /\ IF o.exc = NoException
            THEN /\ observed' = observed
                 /\ ReturnDict(SuccessDict(o.data, lang, check_if_generated))
            ELSE IF InnerCatches(o.exc)
                 THEN /\ observed' = observed
                      /\ Proceed(lang_idx + 1)
                 ELSE Raise(o.exc)

\* api.fetch(video_id) after the language loop
FetchAny ==
    /\ pc = "fetch"
    /\ LoopExhausted
    /\ UNCHANGED <<proxy_mode, residential_proxy_counter, use_proxy, languages, api,
                   egress_failed, mocked, mock_fail, rotations>>
    /\ \E o \in Outcomes :
         /\ calls' = Append(calls, CallRecord(AnyLanguage, o))
         /\ IF o.exc = NoException
            THEN /\ observed' = observed
                 /\ ReturnDict(SuccessDict(o.data, "unknown", TRUE))
            ELSE Raise(o.exc)

-----------------------------------------------------------------------------
(* The specification of the fetcher *)

\* No call of get_transcript is in progress
Frameless ==
    /\ use_proxy = FALSE
    /\ pc = "idle"
    /\ languages = <<>>
    /\ attempt = 0
    /\ lang_idx = 1
    /\ last_error = "None"
    /\ api = NoApi
    /\ result = NoResult
    /\ started = 0
    /\ sleeps = 0
    /\ calls = <<>>
    /\ observed = "None"
    /\ egress_failed = FALSE
    /\ mocked = FALSE
    /\ mock_fail = 0
    /\ fetches = 0
    /\ rotations = 0

\* The caller has taken the result (or the exception): the frame is gone
Done ==
    /\ pc \in {"returned", "raised"}
    /\ use_proxy' = FALSE
    /\ pc' = "idle"
    /\ languages' = <<>>
    /\ attempt' = 0
    /\ lang_idx' = 1
    /\ last_error' = "None"
    /\ api' = NoApi
    /\ result' = NoResult
    /\ started' = 0
    /\ sleeps' = 0
    /\ calls' = <<>>
    /\ observed' = "None"
    /\ egress_failed' = FALSE
    /\ mocked' = FALSE
    /\ mock_fail' = 0
    /\ fetches' = 0
    /\ rotations' = 0
    /\ UNCHANGED <<proxy_mode, residential_proxy_counter>>

FetcherIdle ==
    /\ residential_proxy_counter = 0
    /\ Frameless

CacheIdle ==
    /\ enabled = FALSE
    /\ now = 0
    /\ channels = <<>>
    /\ videos = <<>>
    /\ op = [name |-> "none"]
    /\ ret = [kind |-> "none"]

\* no transcript stored; the cache was built with the flag off
StoreIdle ==
    /\ transcripts = <<>>
    /\ constructed = "off"

\* no YouTubeAPIClient call in progress
ClientIdle ==
    /\ cache = FALSE
    /\ callers = <<>>

\* WebshareProxyManager.__init__, before any call
ManagerIdle ==
    /\ proxies = <<>>
    /\ current_index = 0
    /\ last_fetch = -1
    /\ cache_file = [exists |-> FALSE]
    /\ clock = 0
    /\ mop = [name |-> "none"]
    /\ mret = [kind |-> "none"]
    /\ served = 0
    /\ fixed = 0
    /\ denied = FALSE
    /\ fallback = FALSE
    /\ numbers = <<>>

\* nothing formatted and no get_and_format call in progress
FormatIdle ==
    /\ entries = <<>>
    /\ formatted = <<"None">>
    /\ proc = [pc |-> "idle"]
    /\ processed = [returned |-> FALSE]
    /\ formats = <<>>

Init ==
    /\ proxy_mode \in ProxyModes
    /\ FetcherIdle
    /\ FormatIdle
    /\ CacheIdle
    /\ StoreIdle
    /\ ClientIdle
    /\ ManagerIdle

Next ==
    \/ \E up \in BOOLEAN, langs \in LanguageLists \cup {None}, mock \in Mocks :
         Call(up, langs, mock) /\ UNCHANGED <<cacheVars, storeVars, clientVars, managerVars, formatVars>>
    \/ Done /\ UNCHANGED <<cacheVars, storeVars, clientVars, managerVars, formatVars>>
    \/ CreateApi /\ UNCHANGED <<fetches, cacheVars, storeVars, clientVars, managerVars, formatVars>>
    \/ FetchLang /\ UNCHANGED <<fetches, cacheVars, storeVars, clientVars, managerVars, formatVars>>
    \/ FetchAny /\ UNCHANGED <<fetches, cacheVars, storeVars, clientVars, managerVars, formatVars>>

Spec == Init /\ [][Next]_vars

\* The same caller against an unscripted upstream, with its upstream calls
\* counted over the whole call. The calling thread keeps running and every
\* upstream call, rotator call and sleep returns or raises: weak fairness of
\* the steps of the frame.
NoMock == [on |-> FALSE, fail |-> 0]

Run ==
    \/ CreateApi /\ UNCHANGED <<fetches, cacheVars, storeVars, clientVars, managerVars, formatVars>>
    \/ /\ FetchLang
       /\ fetches' = fetches + 1
       /\ UNCHANGED <<cacheVars, storeVars, clientVars, managerVars, formatVars>>
    \/ /\ FetchAny
       /\ fetches' = fetches + 1
       /\ UNCHANGED <<cacheVars, storeVars, clientVars, managerVars, formatVars>>

NextLive ==
    \/ \E up \in BOOLEAN, langs \in LanguageLists \cup {None} :
         Call(up, langs, NoMock) /\ UNCHANGED <<cacheVars, storeVars, clientVars, managerVars, formatVars>>
    \/ Done /\ UNCHANGED <<cacheVars, storeVars, clientVars, managerVars, formatVars>>
    \/ Run

\* the modes whose rotator can fail and whose rotator returns None; the cursor
\* of the rotating mode has no part in the control flow of the call
InitLive ==
    /\ proxy_mode \in {"api", "none"}
    /\ FetcherIdle
    /\ FormatIdle
    /\ CacheIdle
    /\ StoreIdle
    /\ ClientIdle
    /\ ManagerIdle

SpecLive == InitLive /\ [][NextLive]_vars /\ WF_vars(Run)

-----------------------------------------------------------------------------
(* Properties of TranscriptFetcher.get_transcript *)

Returned == pc = "returned"

Called == calls # <<>>

Contains(error, m) == \E i \in DOMAIN error : error[i] = m

\* every call of the attempt before position i asked for the language at its
\* position and was answered NoTranscriptFound
PrefixNotFound(i) ==
    \A j \in 1..(i - 1) :
        /\ j <= Len(languages)
        /\ calls[j].lang = languages[j]
        /\ calls[j].out = "NoTranscriptFound"

\* C1: when an upstream call of attempt n raises TranscriptsDisabled, the call
\* has returned success=false with attempts = n right away: no later fetch and
\* no attempt n+1, whatever budget remains (attempts = 1 for the first call).
C1_DisabledIsTerminal ==
    \A i \in DOMAIN calls :
        calls[i].out = "TranscriptsDisabled" =>
            /\ i = Len(calls)
            /\ Returned
            /\ result = [success |-> FALSE, error |-> <<"Transcripts disabled">>,
                         attempts |-> started]
            /\ attempt = started
            /\ sleeps = started - 1

C1_Witness ==
    /\ Returned /\ Called
    /\ Last(calls).out = "TranscriptsDisabled"
    /\ use_proxy /\ started = 3 /\ result.attempts = 3

\* C2: when every language of the list was answered not-found and the
\* unqualified fetch of attempt n raises NoTranscriptFound, the call has
\* returned success=false with attempts = n and attempt n+1 is not started,
\* whatever budget remains and whether or not rotation is enabled.
C2_NoTranscriptIsTerminal ==
    (/\ Called
     /\ Last(calls).lang = AnyLanguage
     /\ Last(calls).out = "NoTranscriptFound"
     /\ PrefixNotFound(Len(calls))) =>
        /\ Returned
        /\ result.success = FALSE
        /\ result.attempts = started
        /\ attempt = started
        /\ started <= max_retries

C2_Witness ==
    /\ Returned /\ Called
    /\ Last(calls).lang = AnyLanguage
    /\ Last(calls).out = "NoTranscriptFound"
    /\ Len(calls) = 3
    /\ use_proxy /\ started = 2 /\ result.attempts = 2

\* C3: with MaxAttempts = 5 and an upstream that raises a transient error on
\* every call, the call returns success=false with attempts = 5 and an error
\* string that contains the message of the last transient error observed.
C3_ExhaustedFailure ==
    (Returned /\ mocked /\ mock_fail = MAX_RETRY_ATTEMPTS) =>
        /\ result.success = FALSE
        /\ result.attempts = 5
        /\ observed # "None"
        /\ Contains(result.error, observed)

C3_Witness ==
    /\ Returned /\ mocked /\ mock_fail = MAX_RETRY_ATTEMPTS
    /\ use_proxy /\ started = 5 /\ Called
    /\ Last(calls).out = "ConnectionError"
    /\ Contains(result.error, "timed out")

\* The scripted upstream of C4: a transient error in each of the first four
\* attempts, entries in the fifth, every attempt reaching the upstream
FourFailuresThenEntries == mocked /\ mock_fail = 4 /\ ~egress_failed

\* C4 as claimed: against that upstream the call returns success with
\* attempts = 5.
C4_SucceedsOnFifth ==
    (Returned /\ FourFailuresThenEntries) =>
        /\ result.success
        /\ result.attempts = 5

\* C4 amended: against that upstream a fetcher whose use_proxy flag is true
\* returns success with attempts = 5, having started five attempts.
C4_SucceedsOnFifthWithRotation ==
    (Returned /\ FourFailuresThenEntries /\ use_proxy) =>
        /\ result.success
        /\ result.attempts = 5
        /\ started = 5
        /\ result.transcript # <<>>

C4_Witness ==
    /\ Returned /\ FourFailuresThenEntries /\ use_proxy
    /\ started = 5 /\ sleeps = 4
    /\ result.success /\ result.attempts = 5

\* C5: in every result the reported attempts equals the number of attempts
\* started during the call and lies in 1..MaxAttempts.
C5_AttemptsAreThoseStarted ==
    Returned =>
        /\ result.attempts = started
        /\ result.attempts \in 1..max_retries

\* C6: language fallback does not consume the attempt budget. A not-found
\* answer for a language moves on to the next language within the same attempt,
\* and when, after not-found answers for a prefix of the list, language L
\* returns, the result is success with language_code = L and attempts equal to
\* the number of the attempt (1 in the first attempt).
C6_FallbackKeepsAttempt ==
    /\ (Called /\ Last(calls).lang # AnyLanguage /\ Last(calls).out = "NoTranscriptFound") =>
           /\ pc = "fetch"
           /\ lang_idx = Len(calls) + 1
           /\ attempt = started
    /\ (Called /\ Last(calls).lang # AnyLanguage /\ Last(calls).out = "none") =>
           /\ Returned
           /\ PrefixNotFound(Len(calls))
           /\ Last(calls).lang = languages[Len(calls)]
           /\ result.success
           /\ result.language_code = Last(calls).lang
           /\ result.attempts = started
           /\ attempt = started
           /\ sleeps = started - 1

C6_Witness ==
    /\ Returned /\ languages = <<"bn", "en", "hi">>
    /\ Len(calls) = 3
    /\ calls[1].out = "NoTranscriptFound" /\ calls[2].out = "NoTranscriptFound"
    /\ calls[3].out = "none" /\ calls[3].n > 0
    /\ result.success /\ result.language_code = "hi" /\ result.attempts = 1

\* C7: success=true implies a non-empty entry sequence and no error field;
\* success=false implies that no entries are carried.
C7_ResultInvariant ==
    Returned =>
        /\ result.success =>
              /\ result.transcript # <<>>
              /\ "error" \notin DOMAIN result
        /\ ~result.success => "transcript" \notin DOMAIN result

\* C8: get_transcript never raises: whatever the upstream fetch or the egress
\* acquisition raises in any attempt, the call ends by returning a dictionary,
\* and a failure carries success=false, an error string and an attempts count.
C8_NeverRaises ==
    /\ pc # "raised"
    /\ Returned =>
          /\ "success" \in DOMAIN result
          /\ ~result.success =>
                /\ {"error", "attempts"} \subseteq DOMAIN result
                /\ result.error # <<>>
                /\ result.attempts \in Nat

C8_Witness ==
    /\ Returned /\ egress_failed /\ observed = "proxy_address"
    /\ ~result.success
    /\ Contains(result.error, "proxy_address")

\* C9: the unqualified fetch is issued in an attempt only after every language
\* of the list was answered not-found in that attempt, and when it returns the
\* result is success with language_code "unknown" and is_generated true.
C9_UnqualifiedFetchLast ==
    \A i \in DOMAIN calls :
        calls[i].lang = AnyLanguage =>
            /\ i = Len(languages) + 1
            /\ i = Len(calls)
            /\ PrefixNotFound(i)
            /\ calls[i].out = "none" =>
                  /\ Returned
                  /\ result.success
                  /\ result.language_code = "unknown"
                  /\ result.is_generated = TRUE
                  /\ Len(result.transcript) = calls[i].n

C9_Witness ==
    /\ Returned /\ Len(languages) = 2 /\ Len(calls) = 3
    /\ calls[3].lang = AnyLanguage /\ calls[3].out = "none" /\ calls[3].n > 0
    /\ result.success /\ result.language_code = "unknown"

-----------------------------------------------------------------------------
(* MongoDBCache: channels and videos *)

\* Dictionaries are functions from keys; a missing key and None read as ""
EmptyDict == [k \in {} |-> ""]
DictGet(d, k) == IF k \in DOMAIN d THEN d[k] ELSE ""
Falsy(s) == s = ""

ChannelIds == {"C1", "C2"}
Titles == {"T1", "T2"}
VideoIds == {"V1", "V2"}

ChannelPayloads ==
    {EmptyDict} \cup {[channel_id |-> c, title |-> n] : c \in ChannelIds \cup {""}, n \in Titles}
VideoPayloads == {[video_id |-> v] : v \in VideoIds \cup {""}}
VideoBatches == SeqsUpTo(VideoPayloads, MaxBatch)

\* get_channel(channel_id=...), get_channel(channel_name=...), get_channel()
ChannelQueries ==
    {[channel_id |-> c, channel_name |-> ""] : c \in ChannelIds \cup {""}}
      \cup {[channel_id |-> "", channel_name |-> n] : n \in Titles}

\* max_results of get_videos; 0 is None
MaxResults == {0, 1}

Miss == [hit |-> FALSE, data |-> <<>>]
Hit(d) == [hit |-> TRUE, data |-> d]
Saved(b) == [ok |-> b]
Nothing == [kind |-> "none"]

\* The record of an operation: its name, its arguments and whether the store
\* answered it; one that the store failed keeps no arguments
Answered(name, channel_id, channel_name, max_results) ==
    [name |-> name, channel_id |-> channel_id, channel_name |-> channel_name,
     max_results |-> max_results, answered |-> TRUE]
Unanswered(name) ==
    [name |-> name, channel_id |-> "", channel_name |-> "", max_results |-> 0,
     answered |-> FALSE]

Stored == Len(channels) + Len(videos) + Len(transcripts)

\* {'$gte': cache_cutoff}
InWindow_Strict(timestamp, cutoff) == timestamp > cutoff
InWindow(timestamp, cutoff) == timestamp >= cutoff

\* now - timedelta(days=7) and now - timedelta(days=1)
ChannelCutoff == now - ChannelStalenessDays
VideoCutoff == now - VideoStalenessDays

\* the query of get_channel: by id if given, else by name
MatchChannel(doc, channel_id, channel_name) ==
    IF ~Falsy(channel_id)
    THEN doc.metadata.channel_id = channel_id
    ELSE doc.metadata.channel_name = channel_name

\* sort=[('timestamp', -1)]: the documents of S that no other one of S precedes
Newest_Ascending(coll, S) == {i \in S : \A j \in S : coll[j].timestamp >= coll[i].timestamp}
Newest(coll, S) == {i \in S : \A j \in S : coll[j].timestamp <= coll[i].timestamp}

\* find(query).sort('timestamp', -1): the orders of S by descending timestamp
SortedDesc(coll, S) ==
    {s \in [1..Cardinality(S) -> S] :
        /\ \A i \in S : \E k \in DOMAIN s : s[k] = i
        /\ \A k \in 1..(Cardinality(S) - 1) :
              coll[s[k]].timestamp >= coll[s[k + 1]].timestamp}

Min(a, b) == IF a <= b THEN a ELSE b

\* cursor.limit(max_results) if max_results
Limit(s, max_results) ==
    IF max_results = 0 THEN s ELSE SubSeq(s, 1, Min(max_results, Len(s)))

\* an exception that left the cache operation
Propagated == [hit |-> FALSE, data |-> <<>>, raised |-> TRUE]
Raised(r) == "raised" \in DOMAIN r

get_channel_Propagates(channel_id, channel_name, raises) ==
    LET asked == enabled /\ ~(Falsy(channel_id) /\ Falsy(channel_name))
        found == {i \in DOMAIN channels :
                     /\ MatchChannel(channels[i], channel_id, channel_name)
                     /\ InWindow(channels[i].timestamp, ChannelCutoff)}
    IN  /\ raises => asked
        /\ op' = IF asked /\ ~raises
                 THEN Answered("get_channel", channel_id, channel_name, 0)
                 ELSE Unanswered("get_channel")
        /\ IF raises
           THEN ret' = Propagated
           ELSE IF ~asked \/ found = {}
           THEN ret' = Miss
           ELSE \E i \in Newest(channels, found) : ret' = Hit(channels[i].data)
        /\ UNCHANGED <<enabled, now, channels, videos>>

get_channel(channel_id, channel_name, raises) ==
    LET asked == enabled /\ ~(Falsy(channel_id) /\ Falsy(channel_name))
        found == {i \in DOMAIN channels :
                     /\ MatchChannel(channels[i], channel_id, channel_name)
                     /\ InWindow(channels[i].timestamp, ChannelCutoff)}
    IN  /\ raises => asked
        /\ op' = IF asked /\ ~raises
                 THEN Answered("get_channel", channel_id, channel_name, 0)
                 ELSE Unanswered("get_channel")
        /\ IF ~asked \/ raises \/ found = {}
           THEN ret' = Miss
           ELSE \E i \in Newest(channels, found) : ret' = Hit(channels[i].data)
        /\ UNCHANGED <<enabled, now, channels, videos>>

save_channel(channel_data, raises) ==
    LET channel_id == DictGet(channel_data, "channel_id")
        channel_name == DictGet(channel_data, "title")
        doc == [timestamp |-> now,
                metadata |-> [channel_id |-> channel_id, channel_name |-> channel_name],
                data |-> channel_data]
        inserting == enabled /\ channel_data # EmptyDict /\ ~Falsy(channel_id)
    IN  /\ now <= MaxWriteTime
        /\ Stored < MaxDocs
        /\ raises => inserting
        /\ op' = IF inserting /\ ~raises
                 THEN Answered("save_channel", channel_id, channel_name, 0)
                 ELSE Unanswered("save_channel")
        /\ IF inserting /\ ~raises
           THEN channels' = Append(channels, doc) /\ ret' = Saved(TRUE)
           ELSE channels' = channels /\ ret' = Saved(FALSE)
        /\ UNCHANGED <<enabled, now, videos>>

get_videos(channel_id, max_results, raises) ==
    LET found == {i \in DOMAIN videos :
                     /\ videos[i].metadata.channel_id = channel_id
                     /\ InWindow(videos[i].timestamp, VideoCutoff)}
    IN  /\ raises => enabled
        /\ op' = IF enabled /\ ~raises
                 THEN Answered("get_videos", channel_id, "", max_results)
                 ELSE Unanswered("get_videos")
        /\ IF ~enabled \/ raises \/ found = {}
           THEN ret' = Miss
           ELSE \E s \in SortedDesc(videos, found) :
                  ret' = Hit([k \in 1..Len(Limit(s, max_results)) |-> videos[s[k]].data])
        /\ UNCHANGED <<enabled, now, channels, videos>>

\* the documents save_videos inserts for the videos at positions 1..n
RECURSIVE VideoDocs(_, _, _)
VideoDocs(channel_id, batch, n) ==
    IF n = 0 THEN <<>>
    ELSE LET video == batch[n]
             video_id == DictGet(video, "video_id")
             doc == [timestamp |-> now,
                     metadata |-> [video_id |-> video_id, channel_id |-> channel_id,
                                   published_at |-> DictGet(video, "published_at")],
                     data |-> video]
         IN  IF Falsy(video_id)
             THEN VideoDocs(channel_id, batch, n - 1)
             ELSE Append(VideoDocs(channel_id, batch, n - 1), doc)

\* fail_at = 0: no insert raises; fail_at = k: the insert of the video at
\* position k raises, after those before it were inserted
save_videos(channel_id, batch, fail_at) ==
    LET inserting == enabled /\ batch # <<>>
        raised == inserting /\ fail_at > 0
        docs == IF ~inserting THEN <<>>
                ELSE IF raised THEN VideoDocs(channel_id, batch, fail_at - 1)
                ELSE VideoDocs(channel_id, batch, Len(batch))
    IN  /\ now <= MaxWriteTime
        /\ fail_at > 0 =>
              /\ inserting
              /\ fail_at <= Len(batch)
              /\ ~Falsy(DictGet(batch[fail_at], "video_id"))
        /\ Stored + Len(docs) <= MaxDocs
        /\ op' = IF inserting /\ ~raised
                 THEN Answered("save_videos", channel_id, "", 0)
                 ELSE Unanswered("save_videos")
        /\ videos' = videos \o docs
        /\ ret' = Saved(inserting /\ ~raised)
        /\ UNCHANGED <<enabled, now, channels>>

\* the clock moves on by a day
Tick ==
    /\ now < MaxTime
    /\ now' = now + 1
    /\ op' = [name |-> "tick"]
    /\ ret' = Nothing
    /\ UNCHANGED <<enabled, channels, videos>>

\* A constructed MongoDBCache: enabled is whatever __init__ left it at (the
\* configured flag and URI, cleared when the connection test fails). The
\* constructor reads Config.USE_MONGODB_CACHE and Config.MONGODB_URI, which
\* config.py does not define; the operations below are those of an instance
\* built with these attributes supplied.
InitCache ==
    /\ proxy_mode = "none"
    /\ FetcherIdle
    /\ FormatIdle
    /\ enabled \in BOOLEAN
    /\ now = 0
    /\ channels = <<>>
    /\ videos = <<>>
    /\ op = [name |-> "none"]
    /\ ret = Nothing
    /\ transcripts = <<>>
    /\ constructed = IF enabled THEN "connected" ELSE "off"
    /\ ClientIdle
    /\ ManagerIdle

NextCache ==
    \/ \E q \in ChannelQueries, raises \in BOOLEAN :
         get_channel(q.channel_id, q.channel_name, raises) /\ UNCHANGED <<fetcherVars, storeVars, clientVars, managerVars, formatVars>>
    \/ \E d \in ChannelPayloads, raises \in BOOLEAN :
         save_channel(d, raises) /\ UNCHANGED <<fetcherVars, storeVars, clientVars, managerVars, formatVars>>
    \/ \E c \in ChannelIds, m \in MaxResults, raises \in BOOLEAN :
         get_videos(c, m, raises) /\ UNCHANGED <<fetcherVars, storeVars, clientVars, managerVars, formatVars>>
    \/ \E c \in ChannelIds, b \in VideoBatches, k \in 0..MaxBatch :
         save_videos(c, b, k) /\ UNCHANGED <<fetcherVars, storeVars, clientVars, managerVars, formatVars>>
    \/ Tick /\ UNCHANGED <<fetcherVars, storeVars, clientVars, managerVars, formatVars>>

SpecCache == InitCache /\ [][NextCache]_vars

-----------------------------------------------------------------------------
(* MongoDBCache: transcripts, the purge and the construction *)

VideoTitles == {"Title"}
TranscriptPayloads == {EmptyDict, [language |-> "bn"], [language |-> "en"]}

\* clear_old_cache(days)
PurgeDays == {ChannelStalenessDays, DefaultPurgeDays}

\* The record of a transcript operation and of a purge
AnsweredTranscript(name, video_id) ==
    [name |-> name, video_id |-> video_id, answered |-> TRUE]
Purged(days, answered, deleted) ==
    [name |-> "clear_old_cache", days |-> days, answered |-> answered,
     deleted |-> deleted]

\* {'metadata.video_id': video_id}
MatchTranscript_Fresh(doc, video_id) ==
    /\ doc.metadata.video_id = video_id
    /\ InWindow(doc.timestamp, ChannelCutoff)
MatchTranscript(doc, video_id) == doc.metadata.video_id = video_id

get_transcript(video_id, raises) ==
    LET found == {i \in DOMAIN transcripts : MatchTranscript(transcripts[i], video_id)}
    IN  /\ raises => enabled
        /\ op' = IF enabled /\ ~raises
                 THEN AnsweredTranscript("get_transcript", video_id)
                 ELSE Unanswered("get_transcript")
        /\ IF ~enabled \/ raises \/ found = {}
           THEN ret' = Miss
           ELSE \E i \in Newest(transcripts, found) : ret' = Hit(transcripts[i].data)
        /\ UNCHANGED <<enabled, now, channels, videos, transcripts, constructed>>

save_transcript(video_id, video_title, transcript_data, raises) ==
    LET doc == [timestamp |-> now,
                metadata |-> [video_id |-> video_id, video_title |-> video_title],
                data |-> transcript_data]
        inserting == enabled /\ transcript_data # EmptyDict
    IN  /\ now <= MaxWriteTime
        /\ Stored < MaxDocs
        /\ raises => inserting
        /\ op' = IF inserting /\ ~raises
                 THEN AnsweredTranscript("save_transcript", video_id)
                 ELSE Unanswered("save_transcript")
        /\ IF inserting /\ ~raises
           THEN transcripts' = Append(transcripts, doc) /\ ret' = Saved(TRUE)
           ELSE transcripts' = transcripts /\ ret' = Saved(FALSE)
        /\ UNCHANGED <<enabled, now, channels, videos, constructed>>

\* {'timestamp': {'$lt': cutoff}}
Older_OrEqual(timestamp, cutoff) == timestamp <= cutoff
Older(timestamp, cutoff) == timestamp < cutoff

\* delete_many: what is left of the collection
Kept(coll, cutoff) == SelectSeq(coll, LAMBDA doc : ~Older(doc.timestamp, cutoff))

\* fail_at = 0: no delete_many raises; fail_at = k: the k-th of the three raises,
\* after those before it were carried out
clear_old_cache(days, fail_at) ==
    LET cutoff == now - days
        reached(k) == enabled /\ (fail_at = 0 \/ k < fail_at)
        left(coll, k) == IF reached(k) THEN Kept(coll, cutoff) ELSE coll
    IN  /\ fail_at > 0 => enabled
        /\ channels' = left(channels, 1)
        /\ videos' = left(videos, 2)
        /\ transcripts' = left(transcripts, 3)
        /\ op' = Purged(days, enabled /\ fail_at = 0,
                        <<Len(channels) - Len(channels'), Len(videos) - Len(videos'),
                          Len(transcripts) - Len(transcripts')>>)
        /\ ret' = Nothing
        /\ UNCHANGED <<enabled, now, constructed>>

\* The dictionaries get_stats returns
StatsOff == [enabled |-> FALSE]
StatsError == [enabled |-> TRUE, error |-> "raised"]
Stats == [enabled |-> TRUE, channels_count |-> Len(channels),
          videos_count |-> Len(videos), transcripts_count |-> Len(transcripts)]

get_stats_Reconnects(raises) ==
    /\ raises => enabled
    /\ op' = [name |-> "get_stats", answered |-> ~raises]
    /\ ret' = IF raises THEN StatsError ELSE Stats
    /\ enabled' = TRUE
    /\ UNCHANGED <<now, channels, videos, transcripts, constructed>>

get_stats(raises) ==
    /\ raises => enabled
    /\ op' = [name |-> "get_stats", answered |-> enabled /\ ~raises]
    /\ ret' = IF ~enabled THEN StatsOff
              ELSE IF raises THEN StatsError
              ELSE Stats
    /\ UNCHANGED <<enabled, now, channels, videos, transcripts, constructed>>

\* the clock moves on by LeapDays, once
Leap ==
    /\ now <= MaxTime
    /\ now' = now + LeapDays
    /\ op' = [name |-> "tick"]
    /\ ret' = Nothing
    /\ UNCHANGED <<enabled, channels, videos, transcripts, constructed>>

\* MongoDBCache.__init__ on a Config that supplies USE_MONGODB_CACHE and
\* MONGODB_URI: "off" when the flag or the URI is falsy, "unreachable" when the
\* connection test raised, "connected" otherwise
Constructions == {"off", "unreachable", "connected"}

InitStore ==
    /\ proxy_mode = "none"
    /\ FetcherIdle
    /\ FormatIdle
    /\ constructed \in Constructions
    /\ enabled = (constructed = "connected")
    /\ now = 0
    /\ channels = <<>>
    /\ videos = <<>>
    /\ transcripts = <<>>
    /\ op = [name |-> "none"]
    /\ ret = Nothing
    /\ ClientIdle
    /\ ManagerIdle

NextStore ==
    \/ \E v \in VideoIds, raises \in BOOLEAN :
         get_transcript(v, raises) /\ UNCHANGED <<fetcherVars, clientVars, managerVars, formatVars>>
    \/ \E v \in VideoIds, n \in VideoTitles, d \in TranscriptPayloads, raises \in BOOLEAN :
         save_transcript(v, n, d, raises) /\ UNCHANGED <<fetcherVars, clientVars, managerVars, formatVars>>
    \/ \E days \in PurgeDays, k \in 0..3 :
         clear_old_cache(days, k) /\ UNCHANGED <<fetcherVars, clientVars, managerVars, formatVars>>
    \/ \E raises \in BOOLEAN :
         get_stats(raises) /\ UNCHANGED <<fetcherVars, clientVars, managerVars, formatVars>>
    \/ \E c \in ChannelIds :
         get_channel(c, "", FALSE) /\ UNCHANGED <<fetcherVars, storeVars, clientVars, managerVars, formatVars>>
    \/ \E c \in ChannelIds :
         save_channel([channel_id |-> c, title |-> "T1"], FALSE)
           /\ UNCHANGED <<fetcherVars, storeVars, clientVars, managerVars, formatVars>>
    \/ \E c \in ChannelIds :
         get_videos(c, 0, FALSE) /\ UNCHANGED <<fetcherVars, storeVars, clientVars, managerVars, formatVars>>
    \/ \E c \in ChannelIds :
         save_videos(c, <<[video_id |-> "V1"]>>, 0)
           /\ UNCHANGED <<fetcherVars, storeVars, clientVars, managerVars, formatVars>>
    \/ Tick /\ UNCHANGED <<fetcherVars, storeVars, clientVars, managerVars, formatVars>>
    \/ Leap /\ UNCHANGED <<fetcherVars, clientVars, managerVars, formatVars>>

SpecStore == InitStore /\ [][NextStore]_vars

(* The purge on a store that has been filled over a month *)

\* the ages, in days, of the documents of that store: at and around the
\* staleness windows and the default threshold of the purge
PurgeAges ==
    {0, VideoStalenessDays, ChannelStalenessDays, DefaultPurgeDays, DefaultPurgeDays + 1}
PurgeNow == DefaultPurgeDays + 1

\* the documents save_channel, save_videos and save_transcript insert
ChannelDocs ==
    {[timestamp |-> PurgeNow - a,
      metadata |-> [channel_id |-> "C1", channel_name |-> n],
      data |-> [channel_id |-> "C1", title |-> n]] : a \in PurgeAges, n \in Titles}
VideoListingDocs ==
    {[timestamp |-> PurgeNow - a,
      metadata |-> [video_id |-> v, channel_id |-> "C1", published_at |-> ""],
      data |-> [video_id |-> v]] : a \in PurgeAges, v \in VideoIds}
TranscriptDocs ==
    {[timestamp |-> PurgeNow - a,
      metadata |-> [video_id |-> "V1", video_title |-> "Title"],
      data |-> d] : a \in PurgeAges, d \in TranscriptPayloads \ {EmptyDict}}

\* documents are inserted with the time of their insertion
InInsertionOrder(coll) ==
    \A i \in 1..(Len(coll) - 1) : coll[i].timestamp <= coll[i + 1].timestamp

InitPurge ==
    /\ proxy_mode = "none"
    /\ FetcherIdle
    /\ FormatIdle
    /\ constructed = "connected"
    /\ enabled = TRUE
    /\ now = PurgeNow
    /\ channels \in SeqsUpTo(ChannelDocs, MaxDocs)
    /\ InInsertionOrder(channels)
    /\ videos \in SeqsUpTo(VideoListingDocs, MaxDocs - Len(channels))
    /\ InInsertionOrder(videos)
    /\ transcripts \in SeqsUpTo(TranscriptDocs, MaxDocs - Len(channels) - Len(videos))
    /\ InInsertionOrder(transcripts)
    /\ op = [name |-> "none"]
    /\ ret = Nothing
    /\ ClientIdle
    /\ ManagerIdle

NextPurge ==
    \/ \E days \in PurgeDays, k \in 0..3 :
         clear_old_cache(days, k) /\ UNCHANGED <<fetcherVars, clientVars, managerVars, formatVars>>
    \/ get_channel("C1", "", FALSE)
         /\ UNCHANGED <<fetcherVars, storeVars, clientVars, managerVars, formatVars>>
    \/ get_videos("C1", 0, FALSE)
         /\ UNCHANGED <<fetcherVars, storeVars, clientVars, managerVars, formatVars>>
    \/ get_transcript("V1", FALSE)
         /\ UNCHANGED <<fetcherVars, clientVars, managerVars, formatVars>>

SpecPurge == InitPurge /\ [][NextPurge]_vars

-----------------------------------------------------------------------------
(* WebshareProxyManager *)

\* self.last_fetch = None
Never == -1

\* The proxy lists the provider can send: hosts 1..n, all valid or with the
\* last entry marked invalid
Entry(h, valid) == [host |-> h, valid |-> valid]
ProviderLists ==
    UNION {{[i \in 1..n |-> Entry(i, TRUE)],
            [i \in 1..n |-> Entry(i, i < n)]} : n \in 0..MaxPool}

\* What the provider answers to one list request
Responses ==
    {[kind |-> "ok", list |-> l] : l \in ProviderLists}
      \cup {[kind |-> k, list |-> <<>>] :
               k \in {"unauthorized", "status", "transport", "malformed"}}

StatusOf(resp) ==
    CASE resp.kind = "ok" -> 200
      [] resp.kind = "unauthorized" -> 401
      [] resp.kind = "status" -> 500
      [] OTHER -> 0

NoFile == [exists |-> FALSE]
File(list, at) == [exists |-> TRUE, proxies |-> list, last_fetch |-> at]

\* The manager's fields and its file, as one value
Manager == [proxies |-> proxies, last_fetch |-> last_fetch, cache_file |-> cache_file]

\* _load_cache: the manager afterwards and the value returned
load_cache(m) ==
    IF m.cache_file.exists
    THEN [m |-> [m EXCEPT !.proxies = m.cache_file.proxies,
                          !.last_fetch = m.cache_file.last_fetch],
          ok |-> Len(m.cache_file.proxies) > 0]
    ELSE [m |-> m, ok |-> FALSE]

Young(age) == age < cache_duration_minutes

\* _is_cache_valid: the manager afterwards and the value returned
is_cache_valid(m) ==
    IF m.last_fetch = Never
    THEN load_cache(m)
    ELSE [m |-> m, ok |-> Young(clock - m.last_fetch)]

\* [p for p in self.proxies if p['valid']]
ValidOnly(list) == SelectSeq(list, LAMBDA e : e.valid)

\* What a call of fetch_proxy_list does: the manager afterwards, the list
\* returned, whether the provider was asked, its status, and the exception
\* that left the call
Fetched_(m, returned, requested, resp, exc) ==
    [m |-> m, returned |-> returned, requested |-> requested,
     status |-> IF requested THEN StatusOf(resp) ELSE 0,
     transport |-> requested /\ resp.kind = "transport", exc |-> exc]

fetch_proxy_list(m, force_refresh, resp, save_ok) ==
    LET v == is_cache_valid(m)
    IN  IF ~force_refresh /\ v.ok
        THEN Fetched_(v.m, v.m.proxies, FALSE, resp, "")
        ELSE LET m1 == IF force_refresh THEN m ELSE v.m
                 list == ValidOnly(resp.list)
                 l == load_cache(m1)
             IN  CASE resp.kind = "ok" ->
                        Fetched_([proxies |-> list, last_fetch |-> clock,
                                  cache_file |-> IF save_ok THEN File(list, clock)
                                                 ELSE m1.cache_file],
                                 list, TRUE, resp, "")
                   [] resp.kind = "transport" ->
                        Fetched_(l.m, IF l.ok THEN l.m.proxies ELSE <<>>, TRUE, resp, "")
                   [] resp.kind = "malformed" ->
                        Fetched_(m1, <<>>, TRUE, resp, "KeyError")
                   [] OTHER ->
                        Fetched_(m1, <<>>, TRUE, resp, "")

\* (self.current_index + 1) % len(self.proxies)
NextIndex_Skips(i, n) == (i + 2) % n
NextIndex(i, n) == (i + 1) % n

ListReturn(list) == [kind |-> "list", proxies |-> list]
NoneReturn == [kind |-> "None"]
Endpoint(list, i) == [kind |-> "endpoint", host |-> list[i + 1].host, index |-> i]
RaisedReturn(exc) == [kind |-> "raised", exc |-> exc]

\* The record of a rotator operation
ManagerOp(name, f) ==
    [name |-> name, requested |-> f.requested, status |-> f.status,
     transport |-> f.transport, after_denied |-> f.requested /\ denied,
     age |-> IF last_fetch = Never \/ proxies = <<>> THEN Never ELSE clock - last_fetch]

\* the fields, the file and the history after a call of fetch_proxy_list
Refetched(f) ==
    /\ proxies' = f.m.proxies
    /\ last_fetch' = f.m.last_fetch
    /\ cache_file' = f.m.cache_file
    /\ denied' = (denied \/ f.status = 401)
    /\ fallback' = IF f.requested THEN f.transport ELSE fallback

FetchProxyList(force_refresh, resp, save_ok) ==
    LET f == fetch_proxy_list(Manager, force_refresh, resp, save_ok)
    IN  /\ proxy_mode = "api"
        /\ Refetched(f)
        /\ mop' = ManagerOp("fetch_proxy_list", f)
        /\ mret' = IF f.exc # "" THEN RaisedReturn(f.exc) ELSE ListReturn(f.returned)
        /\ UNCHANGED <<current_index, clock, served, fixed, numbers>>

\* get_next_proxy; resp and save_ok matter only when it asks the provider
get_next_proxy(resp, save_ok) ==
    LET unasked == Fetched_(Manager, proxies, FALSE, resp, "")
        f == IF proxies = <<>>
             THEN fetch_proxy_list(Manager, FALSE, resp, save_ok)
             ELSE unasked
        pool == f.m.proxies
        n == Len(pool)
        serves == f.exc = "" /\ pool # <<>> /\ current_index < n
    IN  /\ proxy_mode = "api"
        /\ served < MaxServed
        /\ Refetched(f)
        /\ mop' = ManagerOp("get_next_proxy", f)
        /\ mret' = IF f.exc # "" THEN RaisedReturn(f.exc)
                   ELSE IF pool = <<>> THEN NoneReturn
                   ELSE IF current_index >= n THEN RaisedReturn("IndexError")
                   ELSE Endpoint(pool, current_index)
        /\ current_index' = IF serves THEN NextIndex(current_index, n) ELSE current_index
        /\ fixed' = IF ~serves THEN fixed
                    ELSE IF fixed = 0 \/ fixed = n THEN n ELSE -1
        /\ served' = IF ~serves THEN served
                     ELSE IF fixed = 0 \/ fixed = n THEN served + 1 ELSE 0
        /\ UNCHANGED <<clock, numbers>>

\* time passes
Pass ==
    /\ proxy_mode = "api"
    /\ clock + ClockStep <= MaxMinutes
    /\ clock' = clock + ClockStep
    /\ mop' = [name |-> "pass"]
    /\ mret' = [kind |-> "none"]
    /\ UNCHANGED <<proxies, current_index, last_fetch, cache_file, served, fixed,
                   denied, fallback, numbers>>

(* Config.get_proxy_dict with PROXY_MODE = 'rotating' *)

\* ROTATING_PROXY_USERNAME, split at its hyphens
Usernames == {<<"user">>, <<"user", "3">>, <<"user", "eu">>}

\* parts[-1].isdigit()
IsDigit(s) == \E n \in 0..residential_proxy_count : s = IntStr(n)

\* base_username, and f"{base_username}-{counter}"
base_username(username) ==
    IF Len(username) > 1 /\ IsDigit(Last(username))
    THEN SubSeq(username, 1, Len(username) - 1)
    ELSE username
numbered_username(username, counter) == Append(base_username(username), IntStr(counter))

\* the last residential_proxy_count elements of s
Recent(s) ==
    IF Len(s) <= residential_proxy_count THEN s
    ELSE SubSeq(s, Len(s) - residential_proxy_count + 1, Len(s))

GetProxyDict(username) ==
    /\ proxy_mode = "rotating"
    /\ \E o \in get_proxy_dict :
          /\ residential_proxy_counter' = o.counter
          /\ mop' = [name |-> "get_proxy_dict", username |-> username]
          /\ mret' = [kind |-> "rotating", proxy_number |-> o.proxy.number,
                      username |-> numbered_username(username, o.counter)]
          /\ numbers' = Recent(Append(numbers, o.proxy.number))
    /\ UNCHANGED <<proxies, current_index, last_fetch, cache_file, clock, served,
                   fixed, denied, fallback>>

restOfFetcher == <<proxy_mode, use_proxy, pc, languages,
                   attempt, lang_idx, last_error, api, result, started,
                   sleeps, calls, observed, egress_failed, mocked, mock_fail,
                   fetches, rotations>>

\* the response of a provider that is not asked, and the choices of save_ok
\* that make a difference: _save_cache runs only after a 200
Unasked == [kind |-> "status", list |-> <<>>]
Matters(resp, save_ok) == resp.kind # "ok" => save_ok

InitProxy ==
    /\ proxy_mode \in {"rotating", "api"}
    /\ FetcherIdle
    /\ FormatIdle
    /\ CacheIdle
    /\ StoreIdle
    /\ ClientIdle
    /\ ManagerIdle

NextProxy ==
    \/ \E force_refresh \in BOOLEAN, resp \in Responses, save_ok \in BOOLEAN :
         /\ Matters(resp, save_ok)
         /\ FetchProxyList(force_refresh, resp, save_ok)
         /\ UNCHANGED <<fetcherVars, cacheVars, storeVars, clientVars, formatVars>>
    \/ \E resp \in IF proxies = <<>> THEN Responses ELSE {Unasked}, save_ok \in BOOLEAN :
         /\ Matters(resp, save_ok)
         /\ get_next_proxy(resp, save_ok)
         /\ UNCHANGED <<fetcherVars, cacheVars, storeVars, clientVars, formatVars>>
    \/ Pass /\ UNCHANGED <<fetcherVars, cacheVars, storeVars, clientVars, formatVars>>
    \/ \E username \in Usernames :
         GetProxyDict(username)
           /\ UNCHANGED <<restOfFetcher, cacheVars, storeVars, clientVars, formatVars>>

SpecProxy == InitProxy /\ [][NextProxy]_vars

-----------------------------------------------------------------------------
(* TranscriptFetcher on its rotators: the numbered pool of the rotating mode *)
(* and the WebshareProxyManager of the api mode, with no other caller        *)

\* the exception get_next_proxy raised, as _create_api_instance passes it on
EgressError(t) ==
    [type |-> t, msg |-> IF t = "KeyError" THEN "proxy_address" ELSE "list index out of range"]

\* the proxy of the api instance made from what get_next_proxy returned
ApiProxy(r) ==
    IF r.kind = "endpoint" THEN [kind |-> "api", number |-> r.host] ELSE NoProxy

\* api = self._create_api_instance() with PROXY_MODE = 'api'
CreateApiManaged(resp, save_ok) ==
    /\ pc = "create"
    /\ proxy_mode = "api"
    /\ UsesRotator
    /\ get_next_proxy(resp, save_ok)
    /\ calls' = <<>>
    /\ rotations' = rotations + 1
    /\ UNCHANGED <<proxy_mode, residential_proxy_counter, use_proxy, languages,
                   mocked, mock_fail, fetches>>
    /\ IF mret'.kind = "raised"
       THEN /\ egress_failed' = TRUE
            /\ Raise(EgressError(mret'.exc))
            /\ UNCHANGED api
       ELSE /\ api' = ApiProxy(mret')
            /\ observed' = observed
            /\ Proceed(1)
            /\ UNCHANGED egress_failed

\* the language lists of the callers
EgressLanguages == {<<"bn">>}

InitEgress ==
    /\ proxy_mode \in {"rotating", "api"}
    /\ FetcherIdle
    /\ FormatIdle
    /\ CacheIdle
    /\ StoreIdle
    /\ ClientIdle
    /\ ManagerIdle

NextEgress ==
    \/ \E up \in BOOLEAN, langs \in EgressLanguages :
         /\ served + MAX_RETRY_ATTEMPTS <= MaxServed
         /\ Call(up, langs, NoMock)
         /\ UNCHANGED <<cacheVars, storeVars, clientVars, managerVars, formatVars>>
    \/ Done /\ UNCHANGED <<cacheVars, storeVars, clientVars, managerVars, formatVars>>
    \/ /\ proxy_mode # "api" \/ ~UsesRotator
       /\ CreateApi
       /\ UNCHANGED <<fetches, cacheVars, storeVars, clientVars, managerVars, formatVars>>
    \/ \E resp \in IF proxies = <<>> THEN Responses ELSE {Unasked}, save_ok \in BOOLEAN :
         /\ Matters(resp, save_ok)
         /\ CreateApiManaged(resp, save_ok)
         /\ UNCHANGED <<cacheVars, storeVars, clientVars, formatVars>>
    \/ FetchLang /\ UNCHANGED <<fetches, cacheVars, storeVars, clientVars, managerVars, formatVars>>
    \/ FetchAny /\ UNCHANGED <<fetches, cacheVars, storeVars, clientVars, managerVars, formatVars>>

SpecEgress == InitEgress /\ [][NextEgress]_vars

-----------------------------------------------------------------------------
(* YouTubeAPIClient.get_channel_info and get_channel_videos *)

\* max_results of get_channel_videos
ClientMaxResults == {0, MaxBatch}

\* what the playlistItems pages add up to: videos with their ids
ApiBatches ==
    {[i \in 1..n |-> [video_id |-> IF i % 2 = 1 THEN "V1" ELSE "V2"]] : n \in 0..MaxBatch}

\* _make_request for a channel: "" is None or a response without items
ApiTitles == Titles \cup {""}

IdleFrame(r) ==
    [pc |-> "idle", method |-> "", channel_id |-> "", max_results |-> 0,
     channel_info |-> EmptyDict, videos |-> <<>>, result |-> r]
Frame(method, channel_id, max_results) ==
    [pc |-> "info_lookup", method |-> method, channel_id |-> channel_id,
     max_results |-> max_results, channel_info |-> EmptyDict, videos |-> <<>>,
     result |-> Nothing]
RaisedFrame(f) == [f EXCEPT !.pc = "raised"]

ChannelResult(info) == [kind |-> "channel", data |-> info]
VideosResult(vs) == [kind |-> "videos", data |-> vs]

\* if cached: / if cached_videos: / if not channel_info:
Truthy(r) == r.hit /\ r.data # EmptyDict /\ r.data # <<>>

\* get_channel_info returns info (EmptyDict is None), to its caller or into
\* get_channel_videos
InfoReturns(f, info) ==
    IF f.method = "info" THEN IdleFrame(ChannelResult(info))
    ELSE IF info = EmptyDict THEN IdleFrame(VideosResult(<<>>))
    ELSE [f EXCEPT !.pc = "videos_request", !.channel_info = info]

\* the cache lookup that opens get_channel_info, in frame f of caller p
LookupChannel(p, f, raises) ==
    /\ IF cache
       THEN get_channel(f.channel_id, "", raises)
       ELSE ~raises /\ UNCHANGED cacheVars
    /\ LET cached == IF cache THEN ret' ELSE Miss
       IN  callers' = [callers EXCEPT ![p] =
                         IF Raised(cached) THEN RaisedFrame(f)
                         ELSE IF Truthy(cached) THEN InfoReturns(f, cached.data)
                         ELSE [f EXCEPT !.pc = "info_request"]]

\* get_channel_info(channel_id), up to the end of its cache lookup
GetChannelInfo(p, channel_id, raises) ==
    /\ callers[p].pc = "idle"
    /\ LookupChannel(p, Frame("info", channel_id, 0), raises)

\* get_channel_info called from within get_channel_videos
InfoLookup(p, raises) ==
    /\ callers[p].pc = "info_lookup"
    /\ LookupChannel(p, callers[p], raises)

\* data = self._make_request(url, params), and channel_info built from it
InfoRequest(p, title) ==
    LET f == callers[p]
        info == [channel_id |-> f.channel_id, title |-> title]
    IN  /\ f.pc = "info_request"
        /\ callers' = [callers EXCEPT ![p] =
                          IF title = "" THEN InfoReturns(f, EmptyDict)
                          ELSE IF cache THEN [f EXCEPT !.pc = "info_save", !.channel_info = info]
                          ELSE InfoReturns(f, info)]
        /\ UNCHANGED cacheVars

\* self.cache.save_channel(channel_info); return channel_info
InfoSave(p, raises) ==
    LET f == callers[p]
    IN  /\ f.pc = "info_save"
        /\ save_channel(f.channel_info, raises)
        /\ callers' = [callers EXCEPT ![p] =
                          IF Raised(ret') THEN RaisedFrame(f)
                          ELSE InfoReturns(f, f.channel_info)]

\* get_channel_videos(channel_id, max_results), up to the end of its cache lookup
GetChannelVideos(p, channel_id, max_results, raises) ==
    LET f == Frame("videos", channel_id, max_results)
    IN  /\ callers[p].pc = "idle"
        /\ IF cache
           THEN get_videos(channel_id, max_results, raises)
           ELSE ~raises /\ UNCHANGED cacheVars
        /\ LET cached == IF cache THEN ret' ELSE Miss
           IN  callers' = [callers EXCEPT ![p] =
                             IF Raised(cached) THEN RaisedFrame(f)
                             ELSE IF Truthy(cached) THEN IdleFrame(VideosResult(cached.data))
                             ELSE f]

\* the while loop over the playlistItems pages, which collects batch
VideosRequest(p, batch) ==
    LET f == callers[p]
    IN  /\ f.pc = "videos_request"
        /\ Len(batch) <= f.max_results
        /\ callers' = [callers EXCEPT ![p] =
                          IF cache /\ batch # <<>>
                          THEN [f EXCEPT !.pc = "videos_save", !.videos = batch]
                          ELSE IdleFrame(VideosResult(batch))]
        /\ UNCHANGED cacheVars

\* self.cache.save_videos(channel_id, videos); return videos
VideosSave(p, fail_at) ==
    LET f == callers[p]
    IN  /\ f.pc = "videos_save"
        /\ save_videos(f.channel_id, f.videos, fail_at)
        /\ callers' = [callers EXCEPT ![p] =
                          IF Raised(ret') THEN RaisedFrame(f)
                          ELSE IdleFrame(VideosResult(f.videos))]

\* the clock moves on by a day while the callers run
Tock ==
    /\ now < MaxWriteTime
    /\ now' = now + 1
    /\ op' = [name |-> "tick"]
    /\ ret' = Nothing
    /\ UNCHANGED <<enabled, channels, videos>>

\* YouTubeAPIClient.__init__ with use_cache: self.cache is the MongoDBCache, or
\* None when its constructor raised ("raised")
InitClients(ps) ==
    /\ proxy_mode = "none"
    /\ FetcherIdle
    /\ FormatIdle
    /\ constructed \in Constructions \cup {"raised"}
    /\ cache = (constructed # "raised")
    /\ enabled = (constructed = "connected")
    /\ now = 0
    /\ channels = <<>>
    /\ videos = <<>>
    /\ transcripts = <<>>
    /\ op = [name |-> "none"]
    /\ ret = Nothing
    /\ callers = [p \in ps |-> IdleFrame(Nothing)]
    /\ ManagerIdle

InitClient == InitClients({"a"})

\* the caller is between two calls: it has the cache and no call in progress
Between == cache /\ \A p \in DOMAIN callers : callers[p].pc = "idle"

NextClient ==
    \/ \E p \in DOMAIN callers, raises \in BOOLEAN :
         GetChannelInfo(p, "C1", raises) /\ UNCHANGED <<fetcherVars, storeVars, cache, managerVars, formatVars>>
    \/ \E p \in DOMAIN callers, raises \in BOOLEAN :
         InfoLookup(p, raises) /\ UNCHANGED <<fetcherVars, storeVars, cache, managerVars, formatVars>>
    \/ \E p \in DOMAIN callers, n \in ApiTitles :
         InfoRequest(p, n) /\ UNCHANGED <<fetcherVars, storeVars, cache, managerVars, formatVars>>
    \/ \E p \in DOMAIN callers, raises \in BOOLEAN :
         InfoSave(p, raises) /\ UNCHANGED <<fetcherVars, storeVars, cache, managerVars, formatVars>>
    \/ \E p \in DOMAIN callers, m \in ClientMaxResults, raises \in BOOLEAN :
         GetChannelVideos(p, "C1", m, raises)
           /\ UNCHANGED <<fetcherVars, storeVars, cache, managerVars, formatVars>>
    \/ \E p \in DOMAIN callers, b \in ApiBatches :
         VideosRequest(p, b) /\ UNCHANGED <<fetcherVars, storeVars, cache, managerVars, formatVars>>
    \/ \E p \in DOMAIN callers, k \in 0..MaxBatch :
         VideosSave(p, k) /\ UNCHANGED <<fetcherVars, storeVars, cache, managerVars, formatVars>>
    \/ \E raises \in BOOLEAN :
         Between /\ get_transcript("V1", raises)
           /\ UNCHANGED <<fetcherVars, clientVars, managerVars, formatVars>>
    \/ \E raises \in BOOLEAN :
         Between /\ save_transcript("V1", "Title", [language |-> "bn"], raises)
           /\ UNCHANGED <<fetcherVars, clientVars, managerVars, formatVars>>
    \/ \E k \in 0..3 :
         Between /\ clear_old_cache(0, k)
           /\ UNCHANGED <<fetcherVars, clientVars, managerVars, formatVars>>
    \/ Tock /\ UNCHANGED <<fetcherVars, storeVars, clientVars, managerVars, formatVars>>

SpecClient == InitClient /\ [][NextClient]_vars

\* Two callers of get_channel_info on one cache, and a reader of transcripts
InitRace == InitClients({"a", "b"})

NextRace ==
    \/ \E p \in DOMAIN callers :
         GetChannelInfo(p, "C1", FALSE)
           /\ UNCHANGED <<fetcherVars, storeVars, cache, managerVars, formatVars>>
    \/ \E p \in DOMAIN callers, n \in ApiTitles :
         InfoRequest(p, n) /\ UNCHANGED <<fetcherVars, storeVars, cache, managerVars, formatVars>>
    \/ \E p \in DOMAIN callers :
         InfoSave(p, FALSE) /\ UNCHANGED <<fetcherVars, storeVars, cache, managerVars, formatVars>>
    \/ cache /\ get_transcript("V1", FALSE)
          /\ UNCHANGED <<fetcherVars, clientVars, managerVars, formatVars>>
    \/ \E d \in TranscriptPayloads :
         cache /\ save_transcript("V1", "Title", d, FALSE)
           /\ UNCHANGED <<fetcherVars, clientVars, managerVars, formatVars>>
    \/ Tock /\ UNCHANGED <<fetcherVars, storeVars, clientVars, managerVars, formatVars>>

SpecRace == InitRace /\ [][NextRace]_vars

-----------------------------------------------------------------------------
(* TranscriptFormatter *)

\* An entry's start is a float of seconds: here a whole number of ticks, of
\* which TicksPerSecond make a second
WholeSeconds(n) == n * TicksPerSecond

\* str(n) in decimal, as a sequence of characters
RECURSIVE Decimal(_)
Decimal(n) ==
    IF n < 10 THEN <<IntStr(n)>> ELSE Append(Decimal(n \div 10), IntStr(n % 10))

\* f"{n:02d}": the decimal digits, filled with zeros up to the width 2
ZeroFilled2(n) == IF n < 10 THEN <<"0">> \o Decimal(n) ELSE Decimal(n)

\* int(timestamp // 60)
Minutes(start) == start \div WholeSeconds(60)

Seconds_Total(start) == start \div TicksPerSecond

\* int(timestamp % 60)
Seconds(start) == (start % WholeSeconds(60)) \div TicksPerSecond

\* f"[{minutes:02d}:{seconds:02d}] {text}"
TimestampedLine(entry) ==
    <<"[">> \o ZeroFilled2(Minutes(entry.start)) \o <<":">>
            \o ZeroFilled2(Seconds(entry.start)) \o <<"]", " ">> \o entry.text

\* sep.join(parts)
RECURSIVE Join(_, _)
Join(parts, sep) ==
    IF parts = <<>> THEN <<>>
    ELSE IF Len(parts) = 1 THEN parts[1]
    ELSE Join(SubSeq(parts, 1, Len(parts) - 1), sep) \o sep \o Last(parts)

format_timestamped(transcript) ==
    Join([i \in 1..Len(transcript) |-> TimestampedLine(transcript[i])], <<"\n">>)

format_plain_text(transcript) ==
    Join([i \in 1..Len(transcript) |-> transcript[i].text], <<" ">>)

\* The transcripts handed to the formatter: starts around the minute and the
\* hundredth minute, whole and fractional, and texts that are empty, plain, or
\* of two lines
FormatStarts ==
    {0, 1, WholeSeconds(59) + 1, WholeSeconds(60), WholeSeconds(75) + 1,
     WholeSeconds(5999) + 1, WholeSeconds(6000)}
FormatTexts == {<<>>, <<"h", "i">>, <<"a", "\n", "b">>}
FormatEntries ==
    {[text |-> t, start |-> b, duration |-> 1] : t \in FormatTexts, b \in FormatStarts}

Unformatted == <<"None">>

FormatTimestamped ==
    /\ formatted = Unformatted
    /\ formatted' = format_timestamped(entries)
    /\ formats' = <<"format_timestamped">>
    /\ UNCHANGED <<entries, proc, processed>>

FormatPlainText ==
    /\ formatted = Unformatted
    /\ formatted' = format_plain_text(entries)
    /\ formats' = <<"format_plain_text">>
    /\ UNCHANGED <<entries, proc, processed>>

InitFormat ==
    /\ proxy_mode = "none"
    /\ FetcherIdle
    /\ CacheIdle
    /\ StoreIdle
    /\ ClientIdle
    /\ ManagerIdle
    /\ entries \in SeqsUpTo(FormatEntries, MaxEntries)
    /\ formatted = Unformatted
    /\ proc = [pc |-> "idle"]
    /\ processed = [returned |-> FALSE]
    /\ formats = <<>>

NextFormat ==
    \/ FormatTimestamped
         /\ UNCHANGED <<fetcherVars, cacheVars, storeVars, clientVars, managerVars>>
    \/ FormatPlainText
         /\ UNCHANGED <<fetcherVars, cacheVars, storeVars, clientVars, managerVars>>

SpecFormat == InitFormat /\ [][NextFormat]_vars

-----------------------------------------------------------------------------
(* TranscriptProcessor.get_and_format *)

FormatTypes == {"timestamped", "plain"}

\* the language lists of the callers of get_and_format
ProcessorLanguages == {<<"bn">>, <<"bn", "en">>}

\* to_json_dict; collected_at is the clock when it runs
to_json_dict(video_id, video_title, transcript_data) ==
    [video_id |-> video_id,
     video_title |-> video_title,
     video_url |-> <<"https://www.youtube.com/watch?v=", video_id>>,
     language_code |-> transcript_data.language_code,
     is_generated |-> transcript_data.is_generated,
     transcript |-> transcript_data.transcript,
     collected_at |-> now]

FailureReturn_ErrorOnly(r) == [success |-> FALSE, error |-> r.error]

\* if not result['success']: return result
FailureReturn(r) == r

\* the formatter function get_and_format picks
FormatterOf(format_type) ==
    IF format_type = "timestamped" THEN "format_timestamped" ELSE "format_plain_text"

\* the dictionary returned on success
Composite(video_id, video_title, r, format_type) ==
    [success |-> TRUE,
     formatted_text |-> IF format_type = "timestamped"
                        THEN format_timestamped(r.transcript)
                        ELSE format_plain_text(r.transcript),
     json_data |-> to_json_dict(video_id, video_title, r),
     metadata |-> [language_code |-> r.language_code,
                   is_generated |-> r.is_generated,
                   entry_count |-> Len(r.transcript)]]

\* The frame of get_and_format, with the history of the call: the number of
\* the call, what the fetcher returned, how many upstream calls it made and
\* how many entries the last of them returned
ProcessorFrame(pc_, video_id, format_type, round) ==
    [pc |-> pc_, video_id |-> video_id, video_title |-> "Title",
     format_type |-> format_type, round |-> round,
     fetched |-> NoResult, upstream |-> 0, entries_fetched |-> 0]

Unprocessed == [returned |-> FALSE]

GetAndFormat_Cached(video_id, up, langs, format_type) ==
    LET stored == {i \in DOMAIN transcripts : MatchTranscript(transcripts[i], video_id)}
        r == SuccessDict(<<>>, "bn", TRUE)
    IN  /\ proc.pc # "fetching"
        /\ proc.round < MaxRounds
        /\ IF enabled /\ stored # {}
           THEN /\ get_transcript(video_id, FALSE)
                /\ proc' = [ProcessorFrame("returned", video_id, format_type, proc.round + 1)
                               EXCEPT !.fetched = r]
                /\ processed' = Composite(video_id, "Title", r, format_type)
                /\ formats' = <<FormatterOf(format_type), "to_json_dict">>
                /\ UNCHANGED <<fetcherVars, entries, formatted>>
           ELSE /\ Call(up, langs, NoMock)
                /\ proc' = ProcessorFrame("fetching", video_id, format_type, proc.round + 1)
                /\ processed' = Unprocessed
                /\ formats' = <<>>
                /\ UNCHANGED <<entries, formatted, cacheVars, storeVars>>

\* get_and_format(video_id, video_title, languages, format_type) is called on
\* a processor built with use_proxy = up: it calls the fetcher
GetAndFormat(video_id, up, langs, format_type) ==
    /\ proc.pc # "fetching"
    /\ proc.round < MaxRounds
    /\ Call(up, langs, NoMock)
    /\ proc' = ProcessorFrame("fetching", video_id, format_type, proc.round + 1)
    /\ processed' = Unprocessed
    /\ formats' = <<>>
    /\ UNCHANGED <<entries, formatted, cacheVars, storeVars>>

\* get_transcript has returned: the rest of get_and_format
ProcessorReturn ==
    LET f == [proc EXCEPT !.pc = "returned", !.fetched = result, !.upstream = fetches,
                          !.entries_fetched = IF Called THEN Last(calls).n ELSE 0]
    IN  /\ proc.pc = "fetching"
        /\ pc = "returned"
        /\ Done
        /\ proc' = f
        /\ IF ~result.success
           THEN /\ processed' = FailureReturn(result)
                /\ UNCHANGED <<entries, formatted, formats>>
           ELSE LET c == Composite(proc.video_id, proc.video_title, result, proc.format_type)
                IN  /\ processed' = c
                    /\ entries' = result.transcript
                    /\ formatted' = c.formatted_text
                    /\ formats' = <<FormatterOf(proc.format_type), "to_json_dict">>
        /\ UNCHANGED <<cacheVars, storeVars>>

\* A processor over a connected cache that a collaborator fills
InitProcessor ==
    /\ proxy_mode = "none"
    /\ FetcherIdle
    /\ enabled = TRUE
    /\ now = 0
    /\ channels = <<>>
    /\ videos = <<>>
    /\ op = [name |-> "none"]
    /\ ret = Nothing
    /\ transcripts = <<>>
    /\ constructed = "connected"
    /\ ClientIdle
    /\ ManagerIdle
    /\ entries = <<>>
    /\ formatted = Unformatted
    /\ proc = ProcessorFrame("idle", "", "", 0)
    /\ processed = Unprocessed
    /\ formats = <<>>

NextProcessor ==
    \/ \E up \in BOOLEAN, langs \in ProcessorLanguages, t \in FormatTypes :
         GetAndFormat("V1", up, langs, t) /\ UNCHANGED <<clientVars, managerVars>>
    \/ CreateApi
         /\ UNCHANGED <<fetches, cacheVars, storeVars, clientVars, managerVars, formatVars>>
    \/ /\ FetchLang
       /\ fetches' = fetches + 1
       /\ UNCHANGED <<cacheVars, storeVars, clientVars, managerVars, formatVars>>
    \/ /\ FetchAny
       /\ fetches' = fetches + 1
       /\ UNCHANGED <<cacheVars, storeVars, clientVars, managerVars, formatVars>>
    \/ ProcessorReturn /\ UNCHANGED <<clientVars, managerVars>>
    \/ save_transcript("V1", "Title", [language |-> "bn"], FALSE)
         /\ UNCHANGED <<fetcherVars, clientVars, managerVars, formatVars>>

SpecProcessor == InitProcessor /\ [][NextProcessor]_vars

-----------------------------------------------------------------------------
(* Properties of the cache *)

Age(doc) == now - doc.timestamp

ChannelEntries(c) == {i \in DOMAIN channels : channels[i].metadata.channel_id = c}
VideoEntries(c) == {i \in DOMAIN videos : videos[i].metadata.channel_id = c}

\* C10: staleness windows. get_channel(C) answers with the payload of the
\* latest save_channel for C, unchanged, while that entry is at most 7 days old,
\* and with a miss once it is older; get_videos(C) answers with the videos saved
\* for C that are at most 1 day old and with a miss when there is none.
C10_StalenessWindows ==
    /\ (op.name = "get_channel" /\ op.answered /\ op.channel_id # "") =>
          LET E == ChannelEntries(op.channel_id)
              latest == {i \in E : \A j \in E : channels[j].timestamp <= channels[i].timestamp}
          IN  IF \E i \in E : Age(channels[i]) <= 7
              THEN /\ ret.hit
                   /\ \E i \in latest : ret.data = channels[i].data
                   /\ ret.data.channel_id = op.channel_id
              ELSE ret = Miss
    /\ (op.name = "get_videos" /\ op.answered) =>
          LET fresh == {i \in VideoEntries(op.channel_id) : Age(videos[i]) <= 1}
          IN  IF fresh = {}
              THEN ret = Miss
              ELSE /\ ret.hit
                   /\ \A k \in DOMAIN ret.data : \E i \in fresh : ret.data[k] = videos[i].data
                   /\ op.max_results = 0 =>
                         /\ Len(ret.data) = Cardinality(fresh)
                         /\ \A i \in fresh : \E k \in DOMAIN ret.data : ret.data[k] = videos[i].data

C10_Witness ==
    /\ op.name = "get_channel" /\ op.answered /\ op.channel_id = "C1"
    /\ ret.hit /\ ret.data = [channel_id |-> "C1", title |-> "T2"]
    /\ \A i \in ChannelEntries("C1") : Age(channels[i]) = 7

-----------------------------------------------------------------------------
(* Properties of the transcripts, the purge and the degraded cache *)

TranscriptEntries(v) == {i \in DOMAIN transcripts : transcripts[i].metadata.video_id = v}

\* C11: transcripts never expire. A get_transcript(V) that the store answers
\* is a miss only when no entry for V is stored; otherwise it returns the
\* payload of an entry for V with the latest timestamp, whatever its age.
C11_TranscriptsNeverExpire ==
    (op.name = "get_transcript" /\ op.answered) =>
        LET E == TranscriptEntries(op.video_id)
        IN  IF E = {}
            THEN ret = Miss
            ELSE /\ ret.hit
                 /\ \E i \in E :
                       /\ \A j \in E : transcripts[j].timestamp <= transcripts[i].timestamp
                       /\ ret.data = transcripts[i].data

C11_Witness ==
    /\ op.name = "get_transcript" /\ op.answered /\ op.video_id = "V1"
    /\ ret.hit /\ ret.data = [language |-> "en"]
    /\ \A i \in TranscriptEntries("V1") : Age(transcripts[i]) >= 100

Gets == {"get_channel", "get_videos", "get_transcript"}
Saves == {"save_channel", "save_videos", "save_transcript"}

\* C13: a cache whose store was unreachable at initialization is a no-op
\* pass-through: every get is a miss, every save reports success, and nothing
\* is stored.
C13_DegradedIsPassThrough ==
    constructed = "unreachable" =>
        /\ Stored = 0
        /\ op.name \in Gets => ret = Miss
        /\ op.name \in Saves => ret = Saved(TRUE)

\* C15: a clear_old_cache(days) that the store answers leaves in each of the
\* three collections exactly the entries of age <= days, unchanged and in
\* order; and no clear_old_cache, answered or not, removes or changes an entry
\* of age <= days.
C15_PurgeRemovesExactlyOlder ==
    [][op'.name = "clear_old_cache" =>
         LET days == op'.days
             young(coll) == SelectSeq(coll, LAMBDA doc : now - doc.timestamp <= days)
         IN  /\ young(channels') = young(channels)
             /\ young(videos') = young(videos)
             /\ young(transcripts') = young(transcripts)
             /\ op'.answered =>
                   /\ channels' = young(channels)
                   /\ videos' = young(videos)
                   /\ transcripts' = young(transcripts)]_vars

C15_Witness ==
    /\ op.name = "clear_old_cache" /\ op.answered
    /\ op.deleted[3] = 1
    /\ \E i \in DOMAIN transcripts : Age(transcripts[i]) = op.days

-----------------------------------------------------------------------------
(* Properties of the callers of the cache *)

\* the entries among S of coll that carry the latest timestamp of S
Latest(coll, S) == {i \in S : \A j \in S : coll[j].timestamp <= coll[i].timestamp}

\* C12: last write wins. Whatever save_channel / save_transcript calls were
\* made for a key, by one caller or by two callers that both missed, a
\* get_channel / get_transcript that hits returns the payload of an entry with
\* the latest timestamp among the non-stale entries of the key, never that of
\* an older one.
C12_LastWriteWins ==
    /\ (op.name = "get_channel" /\ op.answered /\ ret.hit) =>
          LET fresh == {i \in ChannelEntries(op.channel_id) : Age(channels[i]) <= 7}
          IN  \E i \in Latest(channels, fresh) : ret.data = channels[i].data
    /\ (op.name = "get_transcript" /\ op.answered /\ ret.hit) =>
          \E i \in Latest(transcripts, TranscriptEntries(op.video_id)) :
              ret.data = transcripts[i].data

\* both callers missed and saved, one after the other, and a read returned
\* the payload saved last
C12_Witness ==
    /\ Len(channels) = 2
    /\ channels[1].timestamp < channels[2].timestamp
    /\ channels[1].data # channels[2].data
    /\ op.name = "get_channel" /\ op.answered
    /\ ret.hit /\ ret.data = channels[2].data

\* C14: cache failures never propagate. An operation of the cache that the
\* store failed returns normally (a get returns a miss, a save returns False,
\* the purge returns), no caller is left with an exception, and the caller whose
\* lookup failed goes on as after a miss: get_channel_info to its upstream
\* request, get_channel_videos to get_channel_info.
C14_FailuresNeverPropagate ==
    [][/\ \A p \in DOMAIN callers : callers'[p].pc # "raised"
       /\ ~Raised(ret')
       /\ (op'.name \in Gets /\ ~op'.answered) => ret' = Miss
       /\ (op'.name \in Saves /\ ~op'.answered) => ret' = Saved(FALSE)
       /\ op'.name = "clear_old_cache" => ret' = Nothing
       /\ \A p \in DOMAIN callers :
             /\ (/\ callers[p].pc \in {"idle", "info_lookup"}
                 /\ callers'[p].pc # callers[p].pc
                 /\ op'.name = "get_channel" /\ ~op'.answered) =>
                    callers'[p].pc = "info_request"
             /\ (/\ callers[p].pc = "idle"
                 /\ callers'[p].pc # callers[p].pc
                 /\ op'.name = "get_videos" /\ ~op'.answered) =>
                    callers'[p].pc = "info_lookup"]_vars

C14_Witness ==
    /\ enabled
    /\ op.name = "get_videos" /\ ~op.answered
    /\ callers["a"].pc = "info_lookup"

-----------------------------------------------------------------------------
(* Properties of the egress rotators *)

\* C16: round-robin over a pool of fixed size N. The k-th call of
\* get_next_proxy that hands out an endpoint (k = 0, 1, 2, ...), all of them
\* having found a pool of size N, returns the endpoint at index k mod N.
C16_RoundRobin ==
    (mop.name = "get_next_proxy" /\ mret.kind = "endpoint" /\ fixed > 0) =>
        /\ mret.index = (served - 1) % fixed
        /\ mret.host = proxies[mret.index + 1].host

\* the seventh call on a pool of three returns index 0 again
C16_Witness ==
    /\ mop.name = "get_next_proxy" /\ mret.kind = "endpoint"
    /\ fixed = 3 /\ served = 7 /\ mret.index = 0

\* C17: numbered round-robin pool of size N = residential_proxy_count. Each
\* get_proxy_dict of the rotating mode moves the cursor to (cursor mod N) + 1;
\* the proxy_number and the username suffix it returns are the cursor after the
\* call; once a call was made the cursor is one of 1..N; and N consecutive
\* calls use every number of 1..N once.
C17_NumberedRoundRobin ==
    /\ residential_proxy_counter \in 0..10
    /\ (proxy_mode = "rotating" /\ numbers # <<>>) =>
          /\ residential_proxy_counter \in 1..10
          /\ Last(numbers) = residential_proxy_counter
          /\ mret.proxy_number = residential_proxy_counter
          /\ Last(mret.username) = IntStr(residential_proxy_counter)
          /\ \A k \in 1..(Len(numbers) - 1) : numbers[k + 1] = (numbers[k] % 10) + 1
          /\ Len(numbers) = 10 =>
                /\ {numbers[k] : k \in 1..10} = 1..10
                /\ \A j, k \in 1..10 : numbers[j] = numbers[k] => j = k

\* ten calls made, the last of which wrapped from 10 to 1, on a username that
\* carried a number already
C17_Witness ==
    /\ proxy_mode = "rotating"
    /\ Len(numbers) = 10 /\ numbers[9] = 10 /\ numbers[10] = 1
    /\ mop.username = <<"user", "3">> /\ mret.username = <<"user", "1">>

\* C18: cache validity of the remote list. An endpoint is handed out of a list
\* whose fetch timestamp is cache_duration (60 minutes) old or older only by a
\* call that asked the provider first; and a call that finds a list younger
\* than cache_duration in memory does not ask the provider.
C18_StaleListIsRefetched ==
    mop.name = "get_next_proxy" =>
        /\ (mret.kind = "endpoint" /\ clock - last_fetch >= 60) => mop.requested
        /\ (mop.age # Never /\ mop.age < 60) => ~mop.requested

\* C19: fallback after a failed list request. While the last list request is
\* one that failed in transport: with a non-empty cached list on file the pool
\* is that list and get_next_proxy returns one of its endpoints; with no list,
\* on file or in memory, get_next_proxy returns None; and get_next_proxy does
\* not raise.
C19_FallbackToCachedList ==
    fallback =>
        LET cached == cache_file.exists /\ cache_file.proxies # <<>>
        IN  /\ cached => proxies = cache_file.proxies
            /\ mop.name = "get_next_proxy" =>
                  /\ mret.kind # "raised"
                  /\ cached =>
                        /\ mret.kind = "endpoint"
                        /\ \E i \in DOMAIN cache_file.proxies :
                              cache_file.proxies[i].host = mret.host
                  /\ (~cache_file.exists /\ proxies = <<>>) => mret = NoneReturn

\* C20: a 401 is not retried and propagates. Once the provider has answered
\* 401 no operation asks it again, and the operation that received the 401
\* returns something else than it returns for an empty list or for a list
\* request that failed in transport.
C20_UnauthorizedIsFinal ==
    /\ mop.name \in {"fetch_proxy_list", "get_next_proxy"} => ~mop.after_denied
    /\ (mop.name \in {"fetch_proxy_list", "get_next_proxy"} /\ mop.status = 401) =>
          /\ mret # ListReturn(<<>>)
          /\ mret # NoneReturn

-----------------------------------------------------------------------------
(* Properties of the retry loop of TranscriptFetcher.get_transcript *)

TransientTypes == {e.type : e \in TransientErrors \cup EgressErrors}

\* the step is an upstream fetch that raised a transient error, or a
\* _create_api_instance that raised
TransientStep ==
    \/ /\ pc = "fetch"
       /\ Len(calls') = Len(calls) + 1
       /\ Last(calls').out \in TransientTypes
    \/ pc = "create" /\ pc' # "fetch"

\* a step inside one call of get_transcript
InCall == pc \in {"create", "fetch"}

\* C25: after a transient error in attempt n, attempt n+1 is started if and
\* only if n < MaxAttempts and use_proxy is true (so with use_proxy false the
\* call ends after one attempt); one sleep precedes each attempt after the
\* first and no sleep follows the last one.
C25_RetryTransition ==
    [][InCall =>
        /\ TransientStep =>
              IF attempt < MAX_RETRY_ATTEMPTS /\ use_proxy
              THEN /\ pc' = "create"
                   /\ attempt' = attempt + 1
                   /\ started' = started + 1
                   /\ sleeps' = sleeps + 1
              ELSE /\ pc' = "returned"
                   /\ started' = started
                   /\ sleeps' = sleeps
                   /\ ~use_proxy => started' = 1
        /\ ~TransientStep => (attempt' = attempt /\ started' = started /\ sleeps' = sleeps)
        /\ sleeps' = started' - 1
        /\ attempt' = started']_vars

C25_Witness ==
    /\ pc = "create" /\ use_proxy
    /\ attempt = 3 /\ started = 3 /\ sleeps = 2
    /\ observed = "ip blocked"

\* C26: in each attempt the languages are tried in the caller's list order from
\* the first one; a success with language_code = L means every language before
\* L was answered not-found in that attempt; a transient error on a language
\* ends the attempt without a later fetch, and the next attempt starts again
\* from the first language.
C26_LanguageOrder ==
    /\ \A j \in DOMAIN calls :
          /\ j <= Len(languages) + 1
          /\ calls[j].lang = IF j <= Len(languages) THEN languages[j] ELSE AnyLanguage
          /\ j < Len(calls) => calls[j].out = "NoTranscriptFound"
    /\ pc = "fetch" => lang_idx = Len(calls) + 1
    /\ (Called /\ Last(calls).out \in TransientTypes) => pc \in {"create", "returned"}
    /\ (Returned /\ result.success /\ result.language_code # "unknown") =>
          /\ Called
          /\ Last(calls).lang = result.language_code
          /\ languages[Len(calls)] = result.language_code
          /\ PrefixNotFound(Len(calls))

C26_Witness ==
    /\ Returned /\ result.success /\ result.language_code = "en"
    /\ languages = <<"bn", "en">>
    /\ started = 2 /\ observed # "None"
    /\ Len(calls) = 2 /\ calls[1].lang = "bn" /\ calls[1].out = "NoTranscriptFound"

\* The three terminal outcomes of get_transcript
Success == result.success
PermanentFailure ==
    /\ ~result.success
    /\ result.error \in {<<"No transcript found">>, <<"Transcripts disabled">>}
ExhaustedFailure ==
    /\ ~result.success
    /\ result.error[1] = "Failed after "

\* C28: every call of get_transcript whose upstream calls each return or raise
\* ends in exactly one of Success, PermanentFailure and ExhaustedFailure; it
\* starts at most MaxAttempts attempts, numbered 1, 2, ... without a gap, and
\* issues at most MaxAttempts * (number of languages + 1) upstream fetches;
\* nothing of the call follows the terminal outcome.
C28_Terminates ==
    /\ [](InCall \/ Returned =>
            /\ attempt = started
            /\ started \in 1..MAX_RETRY_ATTEMPTS
            /\ Len(calls) <= Len(languages) + 1
            /\ fetches <= MAX_RETRY_ATTEMPTS * (Len(languages) + 1))
    /\ [](Returned =>
            /\ Success \/ PermanentFailure \/ ExhaustedFailure
            /\ ~(Success /\ PermanentFailure)
            /\ ~(Success /\ ExhaustedFailure)
            /\ ~(PermanentFailure /\ ExhaustedFailure))
    /\ [][InCall => attempt' \in {attempt, attempt + 1}]_vars
    /\ [][Returned => (pc' = "idle" /\ fetches' = 0 /\ started' = 0)]_vars
    /\ (InCall ~> Returned)

C28_Witness ==
    /\ Returned /\ ExhaustedFailure
    /\ Len(languages) = 2
    /\ started = MAX_RETRY_ATTEMPTS
    /\ fetches = MAX_RETRY_ATTEMPTS * 3

\* the endpoint of a pool: a numbered proxy or a proxy of the provider's list
Pooled(a) == a.kind \in {"rotating", "api"}

\* C27: with rotation enabled every attempt of get_transcript calls the rotator
\* exactly once, before its first upstream fetch; with a numbered or round-robin
\* pool of at least two endpoints and no other caller, two consecutive attempts
\* of one call never use the same endpoint; with use_proxy false the rotator is
\* not called and its cursor does not move.
C27_FreshEgress ==
    /\ [](InCall \/ Returned =>
            /\ use_proxy => rotations = IF pc = "create" THEN started - 1 ELSE started
            /\ ~use_proxy => rotations = 0)
    /\ [][(InCall /\ ~use_proxy) =>
            UNCHANGED <<residential_proxy_counter, current_index, proxies, mop>>]_vars
    /\ [][(/\ pc = "create" /\ pc' = "fetch" /\ use_proxy /\ attempt > 1
           /\ Pooled(api) /\ Pooled(api')
           /\ proxy_mode = "api" => (Len(proxies) >= 2 /\ Len(proxies') >= 2)) =>
              api' # api]_vars

C27_Witness ==
    /\ pc = "fetch" /\ use_proxy /\ proxy_mode = "api"
    /\ attempt = 3 /\ rotations = 3
    /\ Len(proxies) = 2
    /\ api = [kind |-> "api", number |-> 1]
    /\ current_index = 1

\* C29: once the initialization of the cache has failed to reach the store,
\* enabled stays false on that instance whatever get_*, save_*, get_stats and
\* clear_old_cache calls follow, and none of them gets an answer of the store:
\* nothing is stored and get_stats reports only enabled = false.
C29_DegradedIsLatched ==
    /\ [](constructed = "unreachable" =>
            /\ ~enabled
            /\ Stored = 0
            /\ "answered" \in DOMAIN op => ~op.answered
            /\ op.name = "get_stats" => ret = StatsOff
            /\ op.name \in Gets => ret = Miss)
    /\ [][~enabled => ~enabled']_vars
    /\ [][constructed' = constructed]_vars

C29_Witness ==
    /\ constructed = "unreachable" /\ ~enabled
    /\ op.name = "get_stats" /\ ret = StatsOff
    /\ now > MaxTime

\* the video ids stored for channel c within the 1-day window
FreshVideoIds(c) ==
    {videos[i].metadata.video_id :
        i \in {k \in VideoEntries(c) : InWindow(videos[k].timestamp, VideoCutoff)}}

\* C30: what get_videos returns for a channel is a set of videos: no video_id
\* occurs twice in the list, whatever save_videos calls preceded within the
\* window, and with max_results = n the list holds n distinct videos when at
\* least n distinct videos are stored.
C30_VideosAreASet ==
    (op.name = "get_videos" /\ op.answered /\ ret.hit) =>
        /\ \A i, j \in DOMAIN ret.data :
              i # j => ret.data[i].video_id # ret.data[j].video_id
        /\ (/\ op.max_results > 0
            /\ Cardinality(FreshVideoIds(op.channel_id)) >= op.max_results) =>
              Cardinality({ret.data[i].video_id : i \in DOMAIN ret.data}) = op.max_results

-----------------------------------------------------------------------------
(* Properties of TranscriptFormatter.format_timestamped *)

Digits == {"0", "1", "2", "3", "4", "5", "6", "7", "8", "9"}
DigitValue(c) == CHOOSE n \in 0..9 : IntStr(n) = c

\* the number a sequence of digits denotes
RECURSIVE Denoted(_)
Denoted(ds) ==
    IF ds = <<>> THEN 0
    ELSE 10 * Denoted(SubSeq(ds, 1, Len(ds) - 1)) + DigitValue(Last(ds))

\* the positions of character c in s
Positions(s, c) == {i \in DOMAIN s : s[i] = c}

LeastOf(S) == CHOOSE i \in S : \A j \in S : i <= j

\* s.split("\n"), and the lines of a text ("" has none)
RECURSIVE SplitLines(_)
SplitLines(s) ==
    IF Positions(s, "\n") = {} THEN <<s>>
    ELSE LET k == LeastOf(Positions(s, "\n"))
         IN  <<SubSeq(s, 1, k - 1)>> \o SplitLines(SubSeq(s, k + 1, Len(s)))
LinesOf(s) == IF s = <<>> THEN <<>> ELSE SplitLines(s)

\* ^\[\d{2}:\d{2}\] .*$
MatchesStamp(line) ==
    /\ Len(line) >= 8
    /\ line[1] = "[" /\ line[2] \in Digits /\ line[3] \in Digits /\ line[4] = ":"
    /\ line[5] \in Digits /\ line[6] \in Digits /\ line[7] = "]" /\ line[8] = " "

\* floor(start / 60) and floor(start) mod 60, start in seconds
FloorMinutes(start) == (start \div TicksPerSecond) \div 60
FloorSeconds(start) == (start \div TicksPerSecond) % 60

Timestamped == formats = <<"format_timestamped">>

\* C23 as claimed: the output of format_timestamped has as many lines as there
\* are entries; line i is '[MM:SS] ' and entry i's text, MM = floor(start/60)
\* and SS = floor(start) mod 60 in exactly two digits each, and every line
\* matches ^\[\d{2}:\d{2}\] .*$.
C23_TwoDigitLines ==
    Timestamped =>
        LET lines == LinesOf(formatted)
        IN  /\ Len(lines) = Len(entries)
            /\ \A i \in DOMAIN lines :
                  /\ MatchesStamp(lines[i])
                  /\ Denoted(SubSeq(lines[i], 2, 3)) = FloorMinutes(entries[i].start)
                  /\ Denoted(SubSeq(lines[i], 5, 6)) = FloorSeconds(entries[i].start)
                  /\ SubSeq(lines[i], 9, Len(lines[i])) = entries[i].text

\* the line breaks inside the texts of the first n entries
RECURSIVE BreaksIn(_, _)
BreaksIn(transcript, n) ==
    IF n = 0 THEN 0
    ELSE BreaksIn(transcript, n - 1) + Cardinality(Positions(transcript[n].text, "\n"))

\* C23 amended: the output of format_timestamped is, for each entry in order,
\* '[' MM ':' SS '] ' and the entry's text, with one line break between two
\* entries; MM = floor(start/60) in decimal with at least two digits (exactly
\* two below 100 minutes), SS = floor(start) mod 60 in exactly two digits. It
\* has one line per entry and one more for every line break inside a text.
C23_StampedEntries ==
    Timestamped =>
        LET lines == LinesOf(formatted)
        IN  /\ Len(lines) = Len(entries) + BreaksIn(entries, Len(entries))
            /\ \A i \in DOMAIN entries :
                  LET line == lines[i + BreaksIn(entries, i - 1)]
                      colon == LeastOf(Positions(line, ":"))
                      mm == SubSeq(line, 2, colon - 1)
                      ss == SubSeq(line, colon + 1, colon + 2)
                      text == SubSeq(line, colon + 5, Len(line))
                  IN  /\ line[1] = "["
                      /\ Positions(line, ":") # {}
                      /\ \A k \in DOMAIN mm : mm[k] \in Digits
                      /\ \A k \in DOMAIN ss : ss[k] \in Digits
                      /\ Len(mm) >= 2 /\ Len(ss) = 2
                      /\ (Len(mm) = 2) = (FloorMinutes(entries[i].start) < 100)
                      /\ Denoted(mm) = FloorMinutes(entries[i].start)
                      /\ Denoted(ss) = FloorSeconds(entries[i].start)
                      /\ line[colon + 3] = "]" /\ line[colon + 4] = " "
                      /\ text = SplitLines(entries[i].text)[1]
                      /\ FloorMinutes(entries[i].start) < 100 => MatchesStamp(line)

C23_Witness ==
    /\ Timestamped
    /\ Len(entries) = 2
    /\ entries[1].start = WholeSeconds(6000) /\ entries[1].text = <<"a", "\n", "b">>
    /\ entries[2].start = WholeSeconds(75) + 1
    /\ Len(LinesOf(formatted)) = 3

-----------------------------------------------------------------------------
(* Unsynchronised callers of the rotator: Config.get_proxy_dict in the
   rotating mode and WebshareProxyManager.get_next_proxy over a pool that is
   already loaded.  A step is one load or one store of the shared cursor. *)

Threads == {"a", "b"}

\* ROTATING_PROXY_USERNAME of the deployment
RotatingUser == <<"user">>

\* The frame of a caller: its position, its locals (the counter loaded in line
\* 113, the counter loaded for the username, the entry and the index loaded by
\* get_next_proxy), what its last call returned and how many calls it made
ThreadFrame ==
    [pc |-> "idle", r |-> 0, u |-> 0, proxy |-> Entry(0, TRUE), i |-> 0,
     got |-> Nothing, turns |-> 0]

\* the dictionary of the rotating mode
RotatingDict(u, n) ==
    [kind |-> "rotating", username |-> numbered_username(RotatingUser, u),
     proxy_number |-> n]

\* the dictionary of the api mode, built from the local variable proxy
EndpointDict(proxy) == [kind |-> "endpoint", host |-> proxy.host]

ThreadFrameUnchanged ==
    UNCHANGED <<restOfFetcher, cache, proxies, last_fetch, cache_file, clock, mop, mret,
                served, fixed, denied, fallback, numbers>>

\* config.py 113, right-hand side: load cls._residential_proxy_counter
LoadCounter(t) ==
    /\ proxy_mode = "rotating"
    /\ callers[t].pc = "idle"
    /\ callers[t].turns < MaxTurns
    /\ callers' = [callers EXCEPT ![t].pc = "loaded", ![t].r = residential_proxy_counter]
    /\ UNCHANGED <<residential_proxy_counter, current_index>>
    /\ ThreadFrameUnchanged

\* config.py 113, left-hand side: store (r % count) + 1
StoreCounter(t) ==
    /\ callers[t].pc = "loaded"
    /\ residential_proxy_counter' = (callers[t].r % residential_proxy_count) + 1
    /\ callers' = [callers EXCEPT ![t].pc = "stored"]
    /\ UNCHANGED current_index
    /\ ThreadFrameUnchanged

\* config.py 114: the username is formatted from the counter, loaded again
LoadForUsername(t) ==
    /\ callers[t].pc = "stored"
    /\ callers' = [callers EXCEPT ![t].pc = "named", ![t].u = residential_proxy_counter]
    /\ UNCHANGED <<residential_proxy_counter, current_index>>
    /\ ThreadFrameUnchanged

\* config.py 116-122: the dictionary, with the counter loaded once more
ReturnRotating(t) ==
    /\ callers[t].pc = "named"
    /\ callers' = [callers EXCEPT ![t].pc = "idle", ![t].turns = @ + 1,
                       ![t].got = RotatingDict(callers[t].u, residential_proxy_counter)]
    /\ UNCHANGED <<residential_proxy_counter, current_index>>
    /\ ThreadFrameUnchanged

\* proxy_manager.py 116: proxy = self.proxies[self.current_index]
LoadProxy(t) ==
    /\ proxy_mode = "api"
    /\ callers[t].pc = "idle"
    /\ callers[t].turns < MaxTurns
    /\ proxies # <<>>
    /\ current_index < Len(proxies)
    /\ callers' = [callers EXCEPT ![t].pc = "picked", ![t].proxy = proxies[current_index + 1]]
    /\ UNCHANGED <<residential_proxy_counter, current_index>>
    /\ ThreadFrameUnchanged

\* proxy_manager.py 117, right-hand side: load self.current_index
LoadIndex(t) ==
    /\ callers[t].pc = "picked"
    /\ callers' = [callers EXCEPT ![t].pc = "indexed", ![t].i = current_index]
    /\ UNCHANGED <<residential_proxy_counter, current_index>>
    /\ ThreadFrameUnchanged

\* proxy_manager.py 117-129: store the next index and return the dictionary
StoreIndex(t) ==
    /\ callers[t].pc = "indexed"
    /\ current_index' = NextIndex(callers[t].i, Len(proxies))
    /\ callers' = [callers EXCEPT ![t].pc = "idle", ![t].turns = @ + 1,
                       ![t].got = EndpointDict(callers[t].proxy)]
    /\ UNCHANGED residential_proxy_counter
    /\ ThreadFrameUnchanged

\* Two callers; the counter is anywhere in its cycle, and in the api mode the
\* pool has been fetched and the index is anywhere in it
InitThreads ==
    /\ proxy_mode \in {"rotating", "api"}
    /\ residential_proxy_counter \in
          IF proxy_mode = "rotating" THEN 0..residential_proxy_count ELSE {0}
    /\ Frameless
    /\ CacheIdle
    /\ StoreIdle
    /\ FormatIdle
    /\ cache = FALSE
    /\ callers = [t \in Threads |-> ThreadFrame]
    /\ proxies \in IF proxy_mode = "api"
                   THEN {[i \in 1..n |-> Entry(i, TRUE)] : n \in 1..MaxPool}
                   ELSE {<<>>}
    /\ current_index \in IF proxy_mode = "api" THEN 0..(Len(proxies) - 1) ELSE {0}
    /\ last_fetch = IF proxy_mode = "api" THEN 0 ELSE Never
    /\ cache_file = [exists |-> FALSE]
    /\ clock = 0
    /\ mop = [name |-> "none"]
    /\ mret = [kind |-> "none"]
    /\ served = 0
    /\ fixed = 0
    /\ denied = FALSE
    /\ fallback = FALSE
    /\ numbers = <<>>

NextThreads ==
    \/ \E t \in Threads : LoadCounter(t) /\ UNCHANGED <<cacheVars, storeVars, formatVars>>
    \/ \E t \in Threads : StoreCounter(t) /\ UNCHANGED <<cacheVars, storeVars, formatVars>>
    \/ \E t \in Threads : LoadForUsername(t) /\ UNCHANGED <<cacheVars, storeVars, formatVars>>
    \/ \E t \in Threads : ReturnRotating(t) /\ UNCHANGED <<cacheVars, storeVars, formatVars>>
    \/ \E t \in Threads : LoadProxy(t) /\ UNCHANGED <<cacheVars, storeVars, formatVars>>
    \/ \E t \in Threads : LoadIndex(t) /\ UNCHANGED <<cacheVars, storeVars, formatVars>>
    \/ \E t \in Threads : StoreIndex(t) /\ UNCHANGED <<cacheVars, storeVars, formatVars>>

SpecThreads == InitThreads /\ [][NextThreads]_vars

-----------------------------------------------------------------------------
(* Properties of the rotator under unsynchronised callers *)

\* the cursors are in their ranges
CursorInRange ==
    /\ residential_proxy_counter \in 0..residential_proxy_count
    /\ proxy_mode = "api" => current_index \in 0..(Len(proxies) - 1)

\* the endpoint of the dictionary is one of the pool
ValidEndpoint(d) ==
    /\ d.kind = "rotating" =>
          \E k \in 1..residential_proxy_count :
              d.username = numbered_username(RotatingUser, k)
    /\ d.kind = "endpoint" => \E k \in DOMAIN proxies : d.host = proxies[k].host

\* the dictionary is one that a call alone could have returned
Sequential(d) ==
    /\ d.kind = "rotating" =>
          /\ d.proxy_number \in 1..residential_proxy_count
          /\ d.username = numbered_username(RotatingUser, d.proxy_number)
    /\ d.kind = "endpoint" => \E k \in DOMAIN proxies : d = EndpointDict(proxies[k])

ReturnedDicts == {callers[t].got : t \in Threads} \ {Nothing}

RotatorSafe == CursorInRange /\ \A d \in ReturnedDicts : ValidEndpoint(d)

\* two calls that ran together have received the same endpoint
SameEndpointTwice ==
    /\ \A t \in Threads : callers[t].pc = "idle" /\ callers[t].turns = 1
    /\ \E d \in ReturnedDicts : \A t \in Threads : callers[t].got = d

\* C24: under every interleaving of the loads and stores of the cursor by
\* unsynchronised callers, the cursor stays in its range, every call returns a
\* valid endpoint of the pool, and nothing else goes wrong than two calls
\* receiving the same endpoint: every dictionary returned is one that a call
\* running alone could have returned.
C24_OnlyDuplicates ==
    /\ CursorInRange
    /\ \A d \in ReturnedDicts : ValidEndpoint(d) /\ Sequential(d)

-----------------------------------------------------------------------------
(* Properties of TranscriptProcessor.get_and_format *)

ProcessorReturned == proc.pc = "returned"

\* C21: when the fetcher's result has success=false, get_and_format returns
\* that result unchanged, error and attempts included, and calls no formatter
\* function; when it has success=true, metadata.entry_count is the number of
\* entries fetched and language_code and is_generated are the fetcher's.
C21_FailureUnchanged ==
    ProcessorReturned =>
        /\ ~proc.fetched.success =>
              /\ processed = proc.fetched
              /\ {"error", "attempts"} \subseteq DOMAIN processed
              /\ DOMAIN processed = {"success", "error", "attempts"}
              /\ formats = <<>>
        /\ proc.fetched.success =>
              /\ processed.success
              /\ processed.metadata.entry_count = proc.entries_fetched
              /\ processed.metadata.entry_count = Len(proc.fetched.transcript)
              /\ processed.metadata.language_code = proc.fetched.language_code
              /\ processed.metadata.is_generated = proc.fetched.is_generated
              /\ formats = <<FormatterOf(proc.format_type), "to_json_dict">>

C21_Witness ==
    /\ ProcessorReturned /\ proc.round = 2
    /\ ~processed.success /\ processed.attempts = MAX_RETRY_ATTEMPTS
    /\ formats = <<>>
    /\ entries # <<>>

\* C22: get_and_format neither reads nor writes the cache: no step of a call
\* changes the store or issues a cache operation, and every call that returns
\* a transcript has got it from the upstream in that call, also when the same
\* video was fetched by the call before or is stored in the cache.
C22_CacheAgnostic ==
    /\ [][(proc'.pc # proc.pc \/ proc'.round # proc.round \/ pc' # pc) =>
            UNCHANGED <<enabled, now, channels, videos, transcripts, op, ret, constructed>>]_vars
    /\ [](ProcessorReturned =>
            /\ processed.success =>
                  /\ proc.upstream >= 1
                  /\ processed.json_data.transcript = proc.fetched.transcript
                  /\ Len(processed.json_data.transcript) = proc.entries_fetched
            /\ proc.upstream >= 1)

C22_Witness ==
    /\ ProcessorReturned /\ proc.round = 2 /\ proc.video_id = "V1"
    /\ processed.success /\ proc.upstream >= 1
    /\ TranscriptEntries("V1") # {}
    /\ entries # <<>>

-----------------------------------------------------------------------------
(* The round-robin index and the pool *)

\* C31: the round-robin index stays inside the pool. After any sequence of
\* fetch_proxy_list calls (forced refreshes with a shorter list and cache
\* loads included) and get_next_proxy calls, a non-empty pool has
\* 0 <= current_index < len(proxies), and get_next_proxy never fails with an
\* index out of range.
C31_IndexInsidePool ==
    /\ proxies # <<>> => current_index \in 0..(Len(proxies) - 1)
    /\ mop.name = "get_next_proxy" => mret # RaisedReturn("IndexError")

-----------------------------------------------------------------------------
(* The purge and the lookups *)

\* what get_channel, get_videos and get_transcript can return from a
\* collection at the present clock: the payloads of a hit, none for a miss
ChannelHits(coll, c) ==
    LET found == {i \in DOMAIN coll : /\ MatchChannel(coll[i], c, "")
                                      /\ InWindow(coll[i].timestamp, ChannelCutoff)}
    IN  {coll[i].data : i \in Newest(coll, found)}
VideoHits(coll, c) ==
    LET found == {i \in DOMAIN coll : /\ coll[i].metadata.channel_id = c
                                      /\ InWindow(coll[i].timestamp, VideoCutoff)}
    IN  IF found = {} THEN {}
        ELSE {[k \in 1..Len(s) |-> coll[s[k]].data] : s \in SortedDesc(coll, found)}
TranscriptHits(coll, v) ==
    LET found == {i \in DOMAIN coll : MatchTranscript(coll[i], v)}
    IN  {coll[i].data : i \in Newest(coll, found)}

\* the step is a clear_old_cache with the default threshold on a live cache
DefaultPurgeStep ==
    enabled /\ op'.name = "clear_old_cache" /\ op'.days = DefaultPurgeDays

AgeOf(doc) == now - doc.timestamp

\* C32 as stated: clear_old_cache(30) never turns a hit into a miss. For
\* channels, video listings and transcripts and for every key, a get that
\* returns a payload right before the purge returns the same right after it.
C32_PurgeKeepsHits ==
    [][DefaultPurgeStep =>
         /\ \A c \in ChannelIds :
               /\ ChannelHits(channels, c) # {} =>
                     ChannelHits(channels', c) = ChannelHits(channels, c)
               /\ VideoHits(videos, c) # {} => VideoHits(videos', c) = VideoHits(videos, c)
         /\ \A v \in VideoIds :
               TranscriptHits(transcripts, v) # {} =>
                   TranscriptHits(transcripts', v) = TranscriptHits(transcripts, v)]_vars

\* What the purge does keep: clear_old_cache(30) leaves every channel lookup
\* and every video listing lookup as it was; a transcript lookup keeps its
\* payload when the latest entry of the video is at most 30 days old, and
\* becomes a miss when every entry of the video is older than 30 days and the
\* store carries the purge out.
PurgeKeepsFreshHits ==
    [][DefaultPurgeStep =>
         /\ \A c \in ChannelIds :
               /\ ChannelHits(channels', c) = ChannelHits(channels, c)
               /\ VideoHits(videos', c) = VideoHits(videos, c)
         /\ \A v \in VideoIds :
               LET stored == {i \in DOMAIN transcripts : MatchTranscript(transcripts[i], v)}
               IN  /\ (\E i \in stored : AgeOf(transcripts[i]) <= DefaultPurgeDays) =>
                         TranscriptHits(transcripts', v) = TranscriptHits(transcripts, v)
                   /\ (/\ stored # {}
                       /\ \A i \in stored : AgeOf(transcripts[i]) > DefaultPurgeDays
                       /\ op'.answered) =>
                         /\ TranscriptHits(transcripts, v) # {}
                         /\ TranscriptHits(transcripts', v) = {}]_vars

=============================================================================
